---- MODULE Spec2Model ----
(***************************************************************************)
(* Battle-simulation core of the RTS game store (src/src/game/state.ts)    *)
(* together with the spatial index (SpatialGrid, src/unnamed/part_003).    *)
(*                                                                         *)
(* Numbers.  World coordinates and distances are fixed-point hundredths of *)
(* a world unit (2.5 units = 250), squared distances are therefore in      *)
(* 1e-4 square units (attack range 4^2 = 16 becomes 160000).  Times are    *)
(* milliseconds.  Unit ids (nanoid strings in the source) are the positive *)
(* integers in creation order.  An absent optional field of a Unit is      *)
(* Undefined; an absent currentAttackers list is <<>> and a present list L *)
(* is <<L>>.  Presentation-only fields that no decision reads (rotation,   *)
(* isHopping, hopPhase, arrivedAtDestinationMs, debugTickCount) and the    *)
(* console logging are left out.                                           *)
(***************************************************************************)
EXTENDS Integers, Sequences, FiniteSets, TLC

VARIABLES
  units,                  \* draft.units: the array of Unit records
  unitOrders,             \* unit id -> target position
  queenPatrols,           \* unit id -> PatrolRoute
  selectedUnitIds,        \* sequence of unit ids
  selectedAnimalPool,     \* the local player's three species
  players,                \* sequence of Player records
  localPlayerId,          \* player id or Undefined
  lastSpawnAtMsByQueenId, \* unit id -> ms
  lastRegenAtMsByUnitId,  \* unit id -> ms
  unitCountCache,         \* <<ownerId, animal>> -> number of Unit-kind units
  spatialGrid,            \* sequence of [id, cx, cz] in insertion order
  tickCounter,
  aiThinkingOffset,       \* unit id -> 0 | 1
  targetCache,            \* unit id -> unit id  (key `${id}-target`)
  lastWinCheckMs,
  matchStarted,
  gameOver,
  winner,
  isPaused,
  bridgeState,            \* [rightBridge, leftBridge]
  distanceCache,          \* module-level memo of distance3D: key -> squared distance
  clock,                  \* performance.now() of the frame driver, ms
  frameMs,                \* frame period of the driver in this run, ms
  accumulator,            \* accumulator.current of the driver, in thirds of a ms
  nextId,                 \* next fresh unit id (nanoid)
  ticksRun,               \* number of frames of the driver run (bounds the run)
  commandsIssued,         \* number of commands issued (bounds the run)
  lastOp                  \* the operation that produced the current state

vars == <<units, unitOrders, queenPatrols, selectedUnitIds, selectedAnimalPool,
          players, localPlayerId, lastSpawnAtMsByQueenId, lastRegenAtMsByUnitId,
          unitCountCache, spatialGrid, tickCounter, aiThinkingOffset, targetCache,
          lastWinCheckMs, matchStarted, gameOver, winner, isPaused, bridgeState,
          distanceCache, clock, frameMs, accumulator, nextId, ticksRun, commandsIssued,
          lastOp>>

-----------------------------------------------------------------------------
(* Bounds of the model *)

\* frames of the driver in a run with commands
MaxTicks == 2
\* commands issued in a run
MaxCommands == 2
\* frames of the driver in a run of a battle left to itself
MaxBattleTicks == 14
\* frames of the driver in a run of undisturbed production
MaxSpawnTicks == 8
\* frames of the driver in a run of the last stage of a match
MaxLateTicks == 5
\* frames of the driver in a run of units marching under orders
MaxMarchTicks == 8
\* frames of the driver in a run at the gates
MaxGateTicks == 16
\* frames of the driver in a duel
MaxDuelTicks == 310
\* calls of the separation resolver in a run
MaxResolves == 3
\* queries of the spatial grid in a run
MaxQueries == 2
\* frames of the driver in a run with a fleeing unit
MaxFleeTicks == 5
\* frames of the driver in a run with a crowd of damaged units
MaxCrowdTicks == 9
\* frames of the fixed-timestep driver in a run
MaxDriverFrames == 2

-----------------------------------------------------------------------------
(* Values and arithmetic *)

Undefined == -1

Truthy(v) == v # Undefined /\ v # 0

Abs(a) == IF a < 0 THEN -a ELSE a

Min(a, b) == IF a < b THEN a ELSE b

\* a / b rounded to the nearest integer, b > 0
RoundDiv(a, b) == IF a >= 0 THEN (2 * a + b) \div (2 * b) ELSE -((2 * (-a) + b) \div (2 * b))

\* x * x <= n, for x >= 0 and n >= 0, without leaving 32 bits
SquareAtMost(x, n) == x = 0 \/ x <= n \div x

\* floor(sqrt(n) / 215) for 0 <= n < 2^31
SqrtHigh(n) ==
  CHOOSE a \in 0..215 : SquareAtMost(215 * a, n) /\ ~SquareAtMost(215 * (a + 1), n)

\* floor(sqrt(n)) for 0 <= n < 2^31
FloorSqrt(n) ==
  CHOOSE r \in (215 * SqrtHigh(n))..(215 * SqrtHigh(n) + 214) :
    SquareAtMost(r, n) /\ ~SquareAtMost(r + 1, n)

\* r or r + 1, whichever is nearer to sqrt(n), for r = floor(sqrt(n))
Nearest(r, n) == IF n - r * r > r THEN r + 1 ELSE r

\* Math.sqrt rounded to the nearest hundredth
Sqrt(n) == Nearest(FloorSqrt(n), n)

\* a division that rounds down (not the program's Math.ceil)
FloorDiv(a, b) == a \div b

\* ceil(a / b), b > 0
CeilDiv(a, b) == -((-a) \div b)

Pos(x, y, z) == [x |-> x, y |-> y, z |-> z]

Get(f, k, default) == IF k \in DOMAIN f THEN f[k] ELSE default

Put(f, k, v) == (k :> v) @@ f

Del(f, k) == [j \in (DOMAIN f) \ {k} |-> f[j]]

Range(s) == {s[j] : j \in DOMAIN s}

Includes(s, v) == \E j \in DOMAIN s : s[j] = v

\* 1 + us.findIndex(u => u.id === id), 0 when there is none.  Ids are handed out
\* in creation order and the units array is only appended to and filtered, so it
\* is increasing in id and the unit with this id is looked for where it can be:
\* not after place id, and before it by at most the number of ids missing
IndexOfId(us, id) ==
  LET gone == IF Len(us) = 0 THEN 0 ELSE us[Len(us)].id - Len(us)
      among == (IF id - gone > 1 THEN id - gone ELSE 1)..(IF id < Len(us) THEN id ELSE Len(us))
  IN IF \E j \in among : us[j].id = id
       THEN CHOOSE j \in among : us[j].id = id
       ELSE 0

HasUnit(us, id) == IndexOfId(us, id) # 0

UnitOf(us, id) == us[IndexOfId(us, id)]

-----------------------------------------------------------------------------
(* 3D utility functions *)

subtract3D(a, b) == Pos(a.x - b.x, a.y - b.y, a.z - b.z)

distanceSquared3D(a, b) ==
  (a.x - b.x) * (a.x - b.x) + (a.y - b.y) * (a.y - b.y) + (a.z - b.z) * (a.z - b.z)

\* |vec|, the divisor of normalize3D
Length3D(vec) == Sqrt(vec.x * vec.x + vec.y * vec.y + vec.z * vec.z)

\* component c of normalize3D(vec) multiplied by the distance m
Along(vec, c, m) ==
  LET len == Length3D(vec)
  IN IF len = 0 THEN 0 ELSE RoundDiv(c * m, len)

\* Math.round(v * 10) / 10 of a value in hundredths, kept in tenths
RoundTenth(v) == (v + 5) \div 10

getCacheKey(a, b) ==
  <<RoundTenth(a.x), RoundTenth(a.y), RoundTenth(a.z),
    RoundTenth(b.x), RoundTenth(b.y), RoundTenth(b.z)>>

CACHE_SIZE_LIMIT == 1000

\* distance3D: the memoised distance, squared (every caller only compares it
\* with a threshold), and the cache after the call
distance3D(cache, a, b) ==
  LET key == getCacheKey(a, b)
  IN IF key \in DOMAIN cache
       THEN [dsq |-> cache[key], cache |-> cache]
       ELSE LET dsq == distanceSquared3D(a, b)
                base == IF Cardinality(DOMAIN cache) >= CACHE_SIZE_LIMIT
                          THEN << >> ELSE cache
            IN [dsq |-> dsq, cache |-> Put(base, key, dsq)]

-----------------------------------------------------------------------------
(* Entity model *)

\* base stats per species; speed in hundredths of a unit per second
ANIMALS ==
  [ Bee     |-> [baseHp |-> 60,  dmg |-> 10, speed |-> 2040],
    Bear    |-> [baseHp |-> 220, dmg |-> 40, speed |-> 816],
    Bunny   |-> [baseHp |-> 75,  dmg |-> 9,  speed |-> 1836],
    Chicken |-> [baseHp |-> 70,  dmg |-> 8,  speed |-> 1904],
    Cat     |-> [baseHp |-> 90,  dmg |-> 12, speed |-> 1632],
    Dolphin |-> [baseHp |-> 110, dmg |-> 18, speed |-> 1360],
    Fox     |-> [baseHp |-> 140, dmg |-> 20, speed |-> 1428],
    Frog    |-> [baseHp |-> 80,  dmg |-> 10, speed |-> 1768],
    Owl     |-> [baseHp |-> 100, dmg |-> 16, speed |-> 1496],
    Pig     |-> [baseHp |-> 160, dmg |-> 18, speed |-> 1224],
    Turtle  |-> [baseHp |-> 240, dmg |-> 24, speed |-> 680],
    Yetti   |-> [baseHp |-> 260, dmg |-> 30, speed |-> 748] ]

baseStats(animal) == ANIMALS[animal]

ATTACK_COOLDOWN_MS == 1500

\* the fields every create* function sets; moveSpeed is in 1e-4 units per second
NewUnit(id, ownerId, animal, kind, position, hp, dmg, speed) ==
  [ id |-> id, ownerId |-> ownerId, animal |-> animal, kind |-> kind,
    position |-> position, hp |-> hp, maxHp |-> hp,
    attackDamage |-> dmg, moveSpeed |-> speed,
    attackCooldownMs |-> ATTACK_COOLDOWN_MS, lastAttackAtMs |-> 0,
    unitState |-> "undefined",
    priorityAttacker |-> Undefined,
    currentAttackers |-> << >>,
    lastCombatTargetId |-> Undefined,
    lastCombatEngagementMs |-> Undefined,
    collisionAttempts |-> Undefined,
    movementPausedUntilMs |-> Undefined,
    firstBlockedAtMs |-> Undefined ]

createBase(id, ownerId, animal, position) ==
  NewUnit(id, ownerId, animal, "Base", position, baseStats(animal).baseHp * 8, 0, 0)

createQueen(id, ownerId, animal, position) ==
  NewUnit(id, ownerId, animal, "Queen", position, baseStats(animal).baseHp * 2,
          baseStats(animal).dmg, baseStats(animal).speed * 153)

createKing(id, ownerId, animal, position) ==
  NewUnit(id, ownerId, animal, "King", position, baseStats(animal).baseHp * 3,
          baseStats(animal).dmg * 3, baseStats(animal).speed * 85)

\* a spawn that makes a Queen (not the program's)
createSpawnedQueen(id, ownerId, animal, position) ==
  NewUnit(id, ownerId, animal, "Queen", position, baseStats(animal).baseHp,
          baseStats(animal).dmg, baseStats(animal).speed * 100)

createUnit(id, ownerId, animal, position) ==
  NewUnit(id, ownerId, animal, "Unit", position, baseStats(animal).baseHp,
          baseStats(animal).dmg, baseStats(animal).speed * 100)

\* GAME_LOGIC_FPS: tick is called with dtSec = 1 / 60
GAME_LOGIC_FPS == 60

\* unit.moveSpeed * dtSec, in hundredths of a unit
MoveDistance(unit) == RoundDiv(unit.moveSpeed, 100 * GAME_LOGIC_FPS)

HasAttackers(u) == u.currentAttackers # << >>

Attackers(u) == IF HasAttackers(u) THEN u.currentAttackers[1] ELSE << >>

-----------------------------------------------------------------------------
(* Players and the maps of the model *)

LocalId == 1

AiId == 2

\* Base positions of the two players.  initializeGame places the two rows of
\* bases 500 units apart (z = 252 and z = -248); squared distances of that size
\* leave 32 bits in hundredths, and units cross the gap in over a thousand ticks.
\* The maps of the model keep three bases per player and the ground level
\* y = 0.25: "apart" keeps the rows out of reach of each other for the length
\* of a run, "skirmish" brings them within a few ticks of each other.
Layouts ==
  [ apart |->
      [ localBases |-> <<Pos(7350, 25, 15000), Pos(-200, 25, 15000), Pos(-7700, 25, 15000)>>,
        aiBases    |-> <<Pos(7650, 25, -15000), Pos(100, 25, -15000), Pos(-7400, 25, -15000)>> ],
    skirmish |->
      [ localBases |-> <<Pos(0, 25, 0),     Pos(4000, 25, 0),     Pos(8000, 25, 0)>>,
        aiBases    |-> <<Pos(-600, 25, 0),  Pos(4000, 25, -3000), Pos(8000, 25, -3000)>> ] ]

InitialPlayers(layout) ==
  << [ id |-> LocalId, isAI |-> FALSE, animals |-> <<"Bee", "Bear", "Fox">>,
       basePositions |-> Layouts[layout].localBases ],
     [ id |-> AiId, isAI |-> TRUE, animals |-> <<"Owl", "Pig", "Turtle">>,
       basePositions |-> Layouts[layout].aiBases ] >>

\* draft.players.find(p => p.id === ownerId) && !ownerPlayer.isAI
IsHumanOwner(ps, ownerId) == \E j \in DOMAIN ps : ps[j].id = ownerId /\ ~ps[j].isAI

InitialBridge ==
  [ currentState |-> "up", currentFrame |-> "Fully_Up", animationStartMs |-> 0,
    frameStartMs |-> 0, triggeredByPlayer |-> FALSE ]

InitialBridgeState == [rightBridge |-> InitialBridge, leftBridge |-> InitialBridge]

\* the three entities of a slot with the King put where the Queen stands
SlotUnitsKingAside(p, animal, basePos, first) ==
  << createBase(first, p.id, animal, basePos),
     createQueen(first + 1, p.id, animal, Pos(basePos.x + 300, basePos.y, basePos.z)),
     createKing(first + 2, p.id, animal, Pos(basePos.x + 300, basePos.y, basePos.z)) >>

\* the three entities startMatch creates for slot i of player p (ids first, first+1, first+2)
SlotUnits(p, animal, basePos, first) ==
  << createBase(first, p.id, animal, basePos),
     createQueen(first + 1, p.id, animal, Pos(basePos.x + 300, basePos.y, basePos.z)),
     createKing(first + 2, p.id, animal, Pos(basePos.x, basePos.y, basePos.z + 300)) >>

PlayerUnits(p, pool, first) ==
  LET chosenAnimals == IF p.isAI THEN p.animals ELSE pool
  IN SlotUnits(p, chosenAnimals[1], p.basePositions[1], first)
     \o SlotUnits(p, chosenAnimals[2], p.basePositions[2], first + 3)
     \o SlotUnits(p, chosenAnimals[3], p.basePositions[3], first + 6)

\* the units array startMatch builds
startMatchUnits(ps, pool, first) ==
  PlayerUnits(ps[1], pool, first) \o PlayerUnits(ps[2], pool, first + 9)

-----------------------------------------------------------------------------
(* SpatialGrid: new SpatialGrid(1000, 50) *)

CELL_SIZE == 5000

\* gridSize = Math.ceil(worldSize / cellSize) with worldSize = 1000 units
GRID_SIZE == 20

getGridCoords(position) ==
  [ x |-> (position.x + (GRID_SIZE * CELL_SIZE) \div 2) \div CELL_SIZE,
    z |-> (position.z + (GRID_SIZE * CELL_SIZE) \div 2) \div CELL_SIZE ]

\* clear() and addUnit(unit) for every unit, in array order
buildFromUnits(us) ==
  [ j \in 1..Len(us) |->
      [ id |-> us[j].id, cx |-> getGridCoords(us[j].position).x,
        cz |-> getGridCoords(us[j].position).z ] ]

\* the place of a grid cell in the double loop over dx and dz, -1 for a cell the
\* loop does not visit
CellOrder(coords, cellRadius, cx, cz) ==
  IF /\ cx - coords.x \in -cellRadius..cellRadius
     /\ cz - coords.z \in -cellRadius..cellRadius
    THEN (cx - coords.x + cellRadius) * (2 * cellRadius + 1) + (cz - coords.z + cellRadius)
    ELSE -1

\* getNearbyUnits(position, radius): ids of the units found, in the order found:
\* cell by cell, and within a cell in insertion order; the grid holds references
\* to the unit objects, so the distance is taken from the position a unit has now
getNearbyUnits(grid, us, position, radius) ==
  LET coords == getGridCoords(position)
      cellRadius == CeilDiv(radius, CELL_SIZE)
      Found(e) == /\ CellOrder(coords, cellRadius, e.cx, e.cz) >= 0
                  /\ HasUnit(us, e.id)
                  /\ distanceSquared3D(position, UnitOf(us, e.id).position) <= radius * radius
      hit == SelectSeq(grid, Found)
      place == [ j \in 1..Len(hit) |->
                   CellOrder(coords, cellRadius, hit[j].cx, hit[j].cz) * (Len(hit) + 1) + j ]
      rank == [ j \in 1..Len(hit) |->
                  Cardinality({m \in 1..Len(hit) : place[m] < place[j]}) + 1 ]
  IN [ n \in 1..Len(hit) |-> hit[CHOOSE j \in 1..Len(hit) : rank[j] = n].id ]

findEnemiesInRange(grid, us, unit, range) ==
  LET IsEnemy(id) == id # unit.id /\ UnitOf(us, id).ownerId # unit.ownerId
  IN SelectSeq(getNearbyUnits(grid, us, unit.position, range), IsEnemy)

findNearbyQueens(grid, us, unit, radius) ==
  LET FriendlyQueen(id) == UnitOf(us, id).kind = "Queen" /\ UnitOf(us, id).ownerId = unit.ownerId
  IN SelectSeq(getNearbyUnits(grid, us, unit.position, radius), FriendlyQueen)

\* ids.reduce((closest, enemy) => nearer of the two, the first one on a tie);
\* Undefined for an empty list
Nearer(dist, a, b) == IF dist[b] < dist[a] THEN b ELSE a

RECURSIVE NearestOf(_, _, _)
NearestOf(dist, lo, hi) ==
  IF lo = hi THEN lo
  ELSE Nearer(dist, NearestOf(dist, lo, (lo + hi) \div 2),
                    NearestOf(dist, (lo + hi) \div 2 + 1, hi))

Closest(us, from, ids) ==
  LET dist == [ j \in DOMAIN ids |-> distanceSquared3D(from, UnitOf(us, ids[j]).position) ]
  IN IF Len(ids) = 0 THEN Undefined ELSE ids[NearestOf(dist, 1, Len(ids))]

\* findClosestEnemy(unit, all): the nearest unit of another owner in the whole array
findClosestEnemy(us, unit) ==
  LET IsOther(u) == u.ownerId # unit.ownerId
      others == SelectSeq(us, IsOther)
  IN Closest(us, unit.position, [ j \in 1..Len(others) |-> others[j].id ])

-----------------------------------------------------------------------------
(* Collision / separation resolver *)

MINIMUM_DISTANCE == 250

MELEE_EXEMPT_SQ == 40000

ENEMY_BUFFER == 20

MANY_UNITS == 50

\* Date.now(): the wall clock runs a fixed offset (the time origin of the page)
\* ahead of performance.now(), from which the driver takes nowMs
TIME_ORIGIN == 1000000000

DateNow(nowMs) == TIME_ORIGIN + nowMs

\* the units checkCollision looks at, in array order
CollisionCandidates(newPosition, currentUnit, allUnits) ==
  LET checkRadius == MINIMUM_DISTANCE * 3
      Near(o) == /\ o.id # currentUnit.id /\ o.kind # "Base"
                 /\ (o.position.x - newPosition.x) * (o.position.x - newPosition.x)
                    + (o.position.z - newPosition.z) * (o.position.z - newPosition.z)
                    <= checkRadius * checkRadius
      NotSelf(o) == o.id # currentUnit.id /\ o.kind # "Base"
  IN IF Len(allUnits) > MANY_UNITS THEN SelectSeq(allUnits, Near) ELSE SelectSeq(allUnits, NotSelf)

\* the loop body adjusts the position: the other unit is nearer than 2.5 units
\* and is not an enemy within 2 units
Touches(pos, currentUnit, other) ==
  LET dSq == (pos.x - other.position.x) * (pos.x - other.position.x)
             + (pos.z - other.position.z) * (pos.z - other.position.z)
  IN /\ ~(currentUnit.ownerId # other.ownerId /\ dSq <= MELEE_EXEMPT_SQ)
     /\ dSq < MINIMUM_DISTANCE * MINIMUM_DISTANCE

\* the push of one pass of the loop body; acc = [pos, hasCollision], distance is
\* Math.sqrt(distanceSquared)
Pushed(acc, dx, dz, distance, isEnemy, pushStrength, rndDir) ==
  LET dirX == IF distance = 0 THEN rndDir[1] ELSE RoundDiv(dx * 100, distance)
      dirZ == IF distance = 0 THEN rndDir[2] ELSE RoundDiv(dz * 100, distance)
      pushDistance == IF isEnemy THEN MINIMUM_DISTANCE - distance + ENEMY_BUFFER
                      ELSE RoundDiv((MINIMUM_DISTANCE - distance) * pushStrength, 100)
  IN IF distance >= 0
       THEN [ pos |-> Pos(acc.pos.x + RoundDiv(dirX * pushDistance, 100), acc.pos.y,
                          acc.pos.z + RoundDiv(dirZ * pushDistance, 100)),
              hasCollision |-> acc.hasCollision \/ isEnemy ]
       ELSE acc

\* one pass of the loop body
PushAway(acc, currentUnit, other, selected, localId, rndDir) ==
  LET shouldReduceCollision ==
        /\ Includes(selected, currentUnit.id) /\ currentUnit.ownerId = localId
        /\ other.ownerId = localId /\ ~Includes(selected, other.id)
      dx == acc.pos.x - other.position.x
      dz == acc.pos.z - other.position.z
  IN IF Touches(acc.pos, currentUnit, other)
       THEN Pushed(acc, dx, dz, Sqrt(dx * dx + dz * dz), currentUnit.ownerId # other.ownerId,
                   IF shouldReduceCollision THEN 20 ELSE 50, rndDir)
       ELSE acc

\* the index, from j on, of the first of the others whose pass adjusts the
\* position, 0 when there is none
NextTouch(pos, currentUnit, others, j) ==
  IF \E k \in j..Len(others) : Touches(pos, currentUnit, others[k])
    THEN CHOOSE k \in j..Len(others) :
           /\ Touches(pos, currentUnit, others[k])
           /\ \A m \in j..(k - 1) : ~Touches(pos, currentUnit, others[m])
    ELSE 0

\* the loop over the others from index j on; the passes that leave the position
\* alone are passed over
RECURSIVE PushLoop(_, _, _, _, _, _, _)
PushLoop(acc, currentUnit, others, j, selected, localId, rndDir) ==
  IF NextTouch(acc.pos, currentUnit, others, j) = 0 THEN acc
  ELSE PushLoop(PushAway(acc, currentUnit, others[NextTouch(acc.pos, currentUnit, others, j)],
                         selected, localId, rndDir),
                currentUnit, others, NextTouch(acc.pos, currentUnit, others, j) + 1,
                selected, localId, rndDir)

\* the bookkeeping after the loop: res = [pos, hasCollision] is what the loop left
TrackCollision(res, currentUnit, localId, orders, nowMs) ==
  LET attempts == (IF currentUnit.collisionAttempts = Undefined THEN 0
                   ELSE currentUnit.collisionAttempts) + 1
      isPlayerWithOrder == currentUnit.ownerId = localId /\ currentUnit.id \in DOMAIN orders
      pauseThreshold == IF isPlayerWithOrder THEN 8 ELSE 5
      pauseDuration == IF isPlayerWithOrder THEN 100 ELSE 200
  IN IF res.hasCollision
       THEN IF attempts >= pauseThreshold
              THEN [ currentUnit EXCEPT !.position = res.pos, !.collisionAttempts = 0,
                                        !.movementPausedUntilMs = DateNow(nowMs) + pauseDuration ]
              ELSE [ currentUnit EXCEPT !.position = res.pos, !.collisionAttempts = attempts ]
       ELSE [ currentUnit EXCEPT !.position = res.pos, !.collisionAttempts = 0 ]

\* checkCollision(newPosition, currentUnit, allUnits, 2.5, selectedUnitIds, localPlayerId,
\* unitOrders): currentUnit as the call and the assignment of its result to
\* currentUnit.position leave it
checkCollision(newPosition, currentUnit, allUnits, selected, localId, orders, nowMs, rndDir) ==
  TrackCollision(PushLoop([pos |-> newPosition, hasCollision |-> FALSE], currentUnit,
                          CollisionCandidates(newPosition, currentUnit, allUnits), 1,
                          selected, localId, rndDir),
                 currentUnit, localId, orders, nowMs)

-----------------------------------------------------------------------------
(* tick: categorisation, regeneration, spawning *)

\* The draft of one tick is a record d with the fields of the store that tick
\* reads or writes, plus combatPairs and deadUnitsToRemove.

SetUnit(d, u) == [d EXCEPT !.units[IndexOfId(d.units, u.id)] = u]

\* The loops of tick run over ids[lo..hi]: the first half, and when the draft
\* it leaves has been computed (its tickCounter is a number), the rest.

IdsOf(us) == [ j \in 1..Len(us) |-> us[j].id ]

IsQueen(u) == u.kind = "Queen"

NeedsHealing(u) == u.hp < u.maxHp

IsMovable(u) == u.kind # "Base"

\* newUnitCountCache: the number of Unit-kind units per owner and species
CountUnits(us) ==
  LET keys == { <<us[j].ownerId, us[j].animal>> : j \in {k \in DOMAIN us : us[k].kind = "Unit"} }
  IN [ key \in keys |->
         Cardinality({ j \in DOMAIN us : /\ us[j].kind = "Unit" /\ us[j].ownerId = key[1]
                                         /\ us[j].animal = key[2] }) ]

REGEN_INTERVAL_MS == 3000

REGEN_AMOUNT == 1

REGEN_CHECK_FREQUENCY == 3

REGEN_RADIUS == 800

REGEN_BATCH == 30

\* the body of the healing loop for one unit
RegenUnit(d, id, nowMs) ==
  LET unit == UnitOf(d.units, id)
      lastRegenTime == Get(d.lastRegenAtMsByUnitId, id, 0)
      nearbyQueens == findNearbyQueens(d.spatialGrid, d.units, unit, REGEN_RADIUS)
  IN IF unit.hp <= 0 THEN d
     ELSE IF nowMs - lastRegenTime < REGEN_INTERVAL_MS THEN d
     ELSE IF Len(nearbyQueens) > 0
       THEN [ SetUnit(d, [unit EXCEPT !.hp = Min(unit.maxHp, unit.hp + REGEN_AMOUNT)])
                EXCEPT !.lastRegenAtMsByUnitId = Put(d.lastRegenAtMsByUnitId, id, nowMs) ]
       ELSE d

RECURSIVE RegenLoop(_, _, _, _, _)
RegenLoop(d, ids, lo, hi, nowMs) ==
  IF d.tickCounter >= 0 /\ lo < hi
    THEN RegenLoop(RegenLoop(d, ids, lo, (lo + hi) \div 2, nowMs),
                   ids, (lo + hi) \div 2 + 1, hi, nowMs)
    ELSE IF lo = hi THEN RegenUnit(d, ids[lo], nowMs) ELSE d

\* regeneration on every tick
RegenerateEveryTick(d, unitsNeedingHealing, nowMs) ==
  RegenLoop(d, unitsNeedingHealing, 1, Min(REGEN_BATCH, Len(unitsNeedingHealing)), nowMs)

\* regeneration, on every third tick, for the first 30 units below max HP
Regenerate(d, unitsNeedingHealing, nowMs) ==
  IF d.tickCounter % REGEN_CHECK_FREQUENCY = 0
    THEN RegenLoop(d, unitsNeedingHealing, 1, Min(REGEN_BATCH, Len(unitsNeedingHealing)),
                   nowMs)
    ELSE d

SPAWN_INTERVAL_MS == 10000

MAX_UNITS_PER_ANIMAL == 20

\* Math.cos(angle) * 2.5 and Math.sin(angle) * 2.5 for the 8 preset angles
SpawnOffsets ==
  << <<250, 0>>, <<177, 177>>, <<0, 250>>, <<-177, 177>>,
     <<-250, 0>>, <<-177, -177>>, <<0, -250>>, <<177, -177>> >>

\* a spawn loop body that leaves the timestamp alone when the cap blocks the spawn
SpawnFromRetrying(d, qid, nowMs, rndDir) ==
  LET q == UnitOf(d.units, qid)
      last == Get(d.lastSpawnAtMsByQueenId, qid, 0)
      existingCount == Get(d.unitCountCache, <<q.ownerId, q.animal>>, 0)
      offset == SpawnOffsets[(existingCount % 8) + 1]
      tentativeSpawnPos == Pos(q.position.x + offset[1], 0, q.position.z + offset[2])
      tempUnit == createUnit(d.nextId, q.ownerId, q.animal, tentativeSpawnPos)
      placed == checkCollision(tentativeSpawnPos, tempUnit, d.units, d.selectedUnitIds,
                               d.localPlayerId, d.unitOrders, nowMs, rndDir)
      stamped == [d EXCEPT !.lastSpawnAtMsByQueenId = Put(d.lastSpawnAtMsByQueenId, qid, nowMs)]
  IN IF nowMs - last >= SPAWN_INTERVAL_MS
       THEN IF existingCount < MAX_UNITS_PER_ANIMAL
              THEN [stamped EXCEPT !.units = Append(d.units, placed), !.nextId = d.nextId + 1]
              ELSE d
       ELSE d

\* the body of the spawn loop for one Queen
SpawnFrom(d, qid, nowMs, rndDir) ==
  LET q == UnitOf(d.units, qid)
      last == Get(d.lastSpawnAtMsByQueenId, qid, 0)
      existingCount == Get(d.unitCountCache, <<q.ownerId, q.animal>>, 0)
      offset == SpawnOffsets[(existingCount % 8) + 1]
      tentativeSpawnPos == Pos(q.position.x + offset[1], 0, q.position.z + offset[2])
      tempUnit == createUnit(d.nextId, q.ownerId, q.animal, tentativeSpawnPos)
      placed == checkCollision(tentativeSpawnPos, tempUnit, d.units, d.selectedUnitIds,
                               d.localPlayerId, d.unitOrders, nowMs, rndDir)
      stamped == [d EXCEPT !.lastSpawnAtMsByQueenId = Put(d.lastSpawnAtMsByQueenId, qid, nowMs)]
  IN IF nowMs - last >= SPAWN_INTERVAL_MS
       THEN IF existingCount < MAX_UNITS_PER_ANIMAL
              THEN [stamped EXCEPT !.units = Append(d.units, placed), !.nextId = d.nextId + 1]
              ELSE stamped
       ELSE d

RECURSIVE SpawnLoop(_, _, _, _, _, _)
SpawnLoop(d, queens, lo, hi, nowMs, rndDir) ==
  IF d.tickCounter >= 0 /\ lo < hi
    THEN SpawnLoop(SpawnLoop(d, queens, lo, (lo + hi) \div 2, nowMs, rndDir),
                   queens, (lo + hi) \div 2 + 1, hi, nowMs, rndDir)
    ELSE IF lo = hi THEN SpawnFrom(d, queens[lo], nowMs, rndDir) ELSE d

-----------------------------------------------------------------------------
(* tick: the behaviour decision of one unit.  Each branch returns            *)
(* [d |-> the draft after the branch, target |-> the id of the unit's target  *)
(* or Undefined].                                                            *)

ARRIVAL_SQ == 2500

ENGAGE_RADIUS == 800

ENGAGE_SQ == 640000

DETECT_RADIUS == 1000

REENGAGE_SQ == 1000000

REENGAGE_MS == 3000

RECENT_COMBAT_MS == 2000

BLOCKED_ATTEMPTS == 3

BLOCK_TIMEOUT_MS == 2000

FOCUS_RANGE_SQ == 25000000

PATROL_ARRIVAL_SQ == 10000

ATTACK_RANGE_SQ == 160000

KNOCKBACK_DISTANCE == 80

\* the position one step of moveDistance from the unit toward the point `to`
StepToward(unit, to) ==
  LET vec == subtract3D(to, unit.position)
  IN Pos(unit.position.x + Along(vec, vec.x, MoveDistance(unit)), unit.position.y,
         unit.position.z + Along(vec, vec.z, MoveDistance(unit)))

MoveWithCollision(d, unit, to, nowMs, rndDir) ==
  checkCollision(StepToward(unit, to), unit, d.units, d.selectedUnitIds, d.localPlayerId,
                 d.unitOrders, nowMs, rndDir)

isInRecentCombat(unit, nowMs) ==
  Truthy(unit.lastCombatEngagementMs) /\ nowMs - unit.lastCombatEngagementMs < RECENT_COMBAT_MS

isMovementPaused(unit, nowMs) ==
  /\ Truthy(unit.movementPausedUntilMs) /\ nowMs < unit.movementPausedUntilMs
  /\ ~isInRecentCombat(unit, nowMs)

\* the unit with this id, alive and of another owner, else Undefined
LivingEnemy(d, unit, id) ==
  IF id # Undefined /\ HasUnit(d.units, id) /\ UnitOf(d.units, id).ownerId # unit.ownerId
     /\ UnitOf(d.units, id).hp > 0
    THEN id ELSE Undefined

\* the last combat target if it was engaged less than 3 s ago and is within 10 units
RecentTarget(d, unit, nowMs) ==
  LET id == LivingEnemy(d, unit, unit.lastCombatTargetId)
  IN IF /\ unit.lastCombatTargetId # Undefined /\ Truthy(unit.lastCombatEngagementMs)
        /\ nowMs - unit.lastCombatEngagementMs < REENGAGE_MS
        /\ id # Undefined
        /\ distanceSquared3D(unit.position, UnitOf(d.units, id).position) <= REENGAGE_SQ
       THEN id ELSE Undefined

\* the last combat target if it is alive and within 50 units (AI focus fire)
FocusTarget(d, unit) ==
  LET id == LivingEnemy(d, unit, unit.lastCombatTargetId)
  IN IF id # Undefined
        /\ distanceSquared3D(unit.position, UnitOf(d.units, id).position) <= FOCUS_RANGE_SQ
       THEN id ELSE Undefined

\* PRIORITY 1, the end: the order is complete within 0.5 units; an enemy within
\* 8 units of the unit is attacked while it travels
OrderArrive(d, unit, nearbyEnemy, dsq) ==
  LET arrived == dsq <= ARRIVAL_SQ
  IN [ d |-> [ SetUnit(d, IF arrived THEN [unit EXCEPT !.unitState = "idle"] ELSE unit)
                 EXCEPT !.unitOrders = IF arrived THEN Del(d.unitOrders, unit.id)
                                       ELSE d.unitOrders ],
       target |-> IF nearbyEnemy # Undefined
                     /\ distanceSquared3D(unit.position,
                                          UnitOf(d.units, nearbyEnemy).position) <= ENGAGE_SQ
                    THEN nearbyEnemy ELSE Undefined ]

\* PRIORITY 1, the step toward the order
OrderMove(d, unit, order, dsq, paused, nowMs, rndDir) ==
  OrderArrive(d,
              IF dsq > ARRIVAL_SQ /\ ~paused
                THEN MoveWithCollision(d, unit, order, nowMs, rndDir) ELSE unit,
              Closest(d.units, unit.position,
                      findEnemiesInRange(d.spatialGrid, d.units, unit, ENGAGE_RADIUS)),
              dsq)

\* PRIORITY 1: execute the movement order of a player unit
PlayerOrder(d, id, nowMs, rndDir) ==
  LET order == d.unitOrders[id]
      u0 == [UnitOf(d.units, id) EXCEPT !.unitState = "moving_to_order"]
      dist == distance3D(d.distanceCache, u0.position, order)
      paused == isMovementPaused(u0, nowMs)
      isCurrentlyBlocked ==
        paused \/ (Truthy(u0.collisionAttempts) /\ u0.collisionAttempts >= BLOCKED_ATTEMPTS)
      firstBlocked == IF Truthy(u0.firstBlockedAtMs) THEN u0.firstBlockedAtMs ELSE nowMs
      abandon == isCurrentlyBlocked /\ nowMs - firstBlocked >= BLOCK_TIMEOUT_MS
      u1 == IF abandon
              THEN [u0 EXCEPT !.unitState = "idle", !.collisionAttempts = 0,
                              !.movementPausedUntilMs = Undefined,
                              !.firstBlockedAtMs = Undefined]
            ELSE IF isCurrentlyBlocked THEN [u0 EXCEPT !.firstBlockedAtMs = firstBlocked]
            ELSE [u0 EXCEPT !.firstBlockedAtMs = Undefined]
      d1 == [ SetUnit(d, u1) EXCEPT !.distanceCache = dist.cache,
                                    !.unitOrders = IF abandon THEN Del(d.unitOrders, id)
                                                   ELSE d.unitOrders ]
  IN OrderMove(d1, u1, order, dist.dsq, paused, nowMs, rndDir)

\* the registered attackers that are in the array with hp > 0
LivingAttackers(d, unit) ==
  LET Alive(a) == HasUnit(d.units, a) /\ UnitOf(d.units, a).hp > 0
  IN SelectSeq(Attackers(unit), Alive)

\* a player unit without an order that stays idle whoever attacks it
PlayerIdleUnmoved(d, id, nowMs) ==
  [ d |-> SetUnit(d, [UnitOf(d.units, id) EXCEPT !.unitState = "idle"]), target |-> Undefined ]

\* a player unit without an order that turns to its nearest attacker in every tick
PlayerIdleNearest(d, id, nowMs) ==
  LET u0 == UnitOf(d.units, id)
      kept == Undefined
      nearest == Closest(d.units, u0.position, LivingAttackers(d, u0))
      priority == IF kept # Undefined THEN kept ELSE nearest
      recent == RecentTarget(d, u0, nowMs)
      detected == Closest(d.units, u0.position,
                          findEnemiesInRange(d.spatialGrid, d.units, u0, DETECT_RADIUS))
      enemyTarget == IF recent # Undefined THEN recent ELSE detected
  IN IF HasAttackers(u0) /\ Len(Attackers(u0)) > 0
       THEN IF priority # Undefined
              THEN [ d |-> SetUnit(d, [u0 EXCEPT !.priorityAttacker = priority,
                                                 !.unitState = "pursuing_enemy"]),
                     target |-> priority ]
              ELSE [ d |-> d, target |-> Undefined ]
     ELSE IF u0.priorityAttacker # Undefined
       THEN [ d |-> SetUnit(d, [u0 EXCEPT !.priorityAttacker = Undefined,
                                          !.unitState = "idle"]),
              target |-> Undefined ]
     ELSE IF u0.unitState \in {"idle", "pursuing_enemy"}
       THEN IF enemyTarget # Undefined
              THEN [ d |-> SetUnit(d, [u0 EXCEPT !.unitState = "pursuing_enemy"]),
                     target |-> enemyTarget ]
              ELSE [ d |-> SetUnit(d, [u0 EXCEPT !.unitState = "idle"]),
                     target |-> Undefined ]
     ELSE [ d |-> d, target |-> Undefined ]

\* PRIORITY 2 and 3: a player unit without an order
PlayerIdle(d, id, nowMs) ==
  LET u0 == UnitOf(d.units, id)
      kept == IF u0.priorityAttacker # Undefined
                 /\ Includes(Attackers(u0), u0.priorityAttacker)
                 /\ HasUnit(d.units, u0.priorityAttacker)
                THEN u0.priorityAttacker ELSE Undefined
      nearest == Closest(d.units, u0.position, LivingAttackers(d, u0))
      priority == IF kept # Undefined THEN kept ELSE nearest
      recent == RecentTarget(d, u0, nowMs)
      detected == Closest(d.units, u0.position,
                          findEnemiesInRange(d.spatialGrid, d.units, u0, DETECT_RADIUS))
      enemyTarget == IF recent # Undefined THEN recent ELSE detected
  IN IF HasAttackers(u0) /\ Len(Attackers(u0)) > 0
       THEN IF priority # Undefined
              THEN [ d |-> SetUnit(d, [u0 EXCEPT !.priorityAttacker = priority,
                                                 !.unitState = "pursuing_enemy"]),
                     target |-> priority ]
              ELSE [ d |-> d, target |-> Undefined ]
     ELSE IF u0.priorityAttacker # Undefined
       THEN [ d |-> SetUnit(d, [u0 EXCEPT !.priorityAttacker = Undefined,
                                          !.unitState = "idle"]),
              target |-> Undefined ]
     ELSE IF u0.unitState \in {"idle", "pursuing_enemy"}
       THEN IF enemyTarget # Undefined
              THEN [ d |-> SetUnit(d, [u0 EXCEPT !.unitState = "pursuing_enemy"]),
                     target |-> enemyTarget ]
              ELSE [ d |-> SetUnit(d, [u0 EXCEPT !.unitState = "idle"]),
                     target |-> Undefined ]
     ELSE [ d |-> d, target |-> Undefined ]

\* a player branch in which a unit under attack drops its order to fight back
PlayerBranchDefending(d, id, nowMs, rndDir) ==
  LET u0 == UnitOf(d.units, id)
  IN IF id \in DOMAIN d.unitOrders /\ ~HasAttackers(u0)
       THEN PlayerOrder(d, id, nowMs, rndDir)
       ELSE PlayerIdle([ SetUnit(d, [u0 EXCEPT !.unitState = "idle"])
                           EXCEPT !.unitOrders = Del(d.unitOrders, id) ], id, nowMs)

\* the branch of a player unit
PlayerBranch(d, id, nowMs, rndDir) ==
  LET u0 == UnitOf(d.units, id)
      d0 == IF u0.unitState = "undefined" THEN SetUnit(d, [u0 EXCEPT !.unitState = "idle"])
            ELSE d
  IN IF id \in DOMAIN d.unitOrders THEN PlayerOrder(d0, id, nowMs, rndDir)
     ELSE PlayerIdle(d0, id, nowMs)


\* a unit that is not a player unit and has an order
AiOrder(d, id, nowMs, rndDir) ==
  LET order == d.unitOrders[id]
      u0 == UnitOf(d.units, id)
      dist == distance3D(d.distanceCache, u0.position, order)
      d1 == [d EXCEPT !.distanceCache = dist.cache]
      u1 == IF dist.dsq > ARRIVAL_SQ /\ ~isMovementPaused(u0, nowMs)
              THEN MoveWithCollision(d1, u0, order, nowMs, rndDir) ELSE u0
  IN [ d |-> [ SetUnit(d1, u1) EXCEPT !.unitOrders = IF dist.dsq <= ARRIVAL_SQ
                                                     THEN Del(d1.unitOrders, id)
                                                     ELSE d1.unitOrders ],
       target |-> Undefined ]

\* Queen patrol behaviour
QueenPatrol(d, id, nowMs, rndDir) ==
  LET patrol == d.queenPatrols[id]
      u0 == UnitOf(d.units, id)
      targetPos == IF patrol.currentTarget = "end" THEN patrol.endPosition
                   ELSE patrol.startPosition
      dist == distance3D(d.distanceCache, u0.position, targetPos)
      d1 == [d EXCEPT !.distanceCache = dist.cache]
  IN IF dist.dsq > PATROL_ARRIVAL_SQ
       THEN [ d |-> SetUnit(d1, MoveWithCollision(d1, u0, targetPos, nowMs, rndDir)),
              target |-> Undefined ]
       ELSE [ d |-> [d1 EXCEPT !.queenPatrols[id].currentTarget =
                                  IF patrol.currentTarget = "end" THEN "start" ELSE "end"],
              target |-> Undefined ]

\* AI focus fire on a thinking tick
AiThink(d, id) ==
  LET u0 == UnitOf(d.units, id)
      focus == FocusTarget(d, u0)
      currentTarget == IF focus # Undefined THEN focus ELSE findClosestEnemy(d.units, u0)
  IN [ d |-> IF currentTarget # Undefined
               THEN [d EXCEPT !.targetCache = Put(d.targetCache, id, currentTarget)]
               ELSE d,
       target |-> currentTarget ]

\* an AI unit on a tick on which it does not think
AiCoast(d, id, nowMs) ==
  LET u0 == UnitOf(d.units, id)
      recent == RecentTarget(d, u0, nowMs)
      focus == FocusTarget(d, u0)
      cachedId == Get(d.targetCache, id, Undefined)
      cached == IF cachedId # Undefined /\ HasUnit(d.units, cachedId)
                   /\ UnitOf(d.units, cachedId).hp > 0
                  THEN cachedId ELSE Undefined
  IN IF recent # Undefined THEN [d |-> d, target |-> recent]
     ELSE IF focus # Undefined THEN [d |-> d, target |-> focus]
     ELSE IF cachedId = Undefined THEN [d |-> d, target |-> Undefined]
     ELSE IF cached # Undefined THEN [d |-> d, target |-> cached]
     ELSE [d |-> [d EXCEPT !.targetCache = Del(d.targetCache, id)], target |-> Undefined]

\* combat execution that attacks whenever the target is in range
CombatStepEager(d, id, targetId, nowMs, rndDir) ==
  LET unit == UnitOf(d.units, id)
      target == UnitOf(d.units, targetId)
      distSquared == distanceSquared3D(unit.position, target.position)
      attacker == [unit EXCEPT !.lastAttackAtMs = nowMs, !.lastCombatTargetId = targetId,
                               !.lastCombatEngagementMs = nowMs]
      attacked == [target EXCEPT !.currentAttackers = <<Append(Attackers(target), id)>>]
  IN IF distSquared <= ATTACK_RANGE_SQ
       THEN [ SetUnit(SetUnit(d, attacker), attacked) EXCEPT
                !.combatPairs = Append(d.combatPairs,
                                       [attacker |-> id, target |-> targetId,
                                        damage |-> unit.attackDamage]) ]
       ELSE SetUnit(d, MoveWithCollision(d, unit, target.position, nowMs, rndDir))

\* COMBAT EXECUTION: attack the target when it is in range and the cooldown has
\* passed, move toward it when it is out of range
CombatStep(d, id, targetId, nowMs, rndDir) ==
  LET unit == UnitOf(d.units, id)
      target == UnitOf(d.units, targetId)
      distSquared == distanceSquared3D(unit.position, target.position)
      fires == distSquared <= ATTACK_RANGE_SQ
               /\ nowMs - unit.lastAttackAtMs >= unit.attackCooldownMs
      attacker == [unit EXCEPT !.lastAttackAtMs = nowMs, !.lastCombatTargetId = targetId,
                               !.lastCombatEngagementMs = nowMs]
      attacked == [target EXCEPT !.currentAttackers = <<Append(Attackers(target), id)>>]
  IN IF fires
       THEN [ SetUnit(SetUnit(d, attacker), attacked) EXCEPT
                !.combatPairs = Append(d.combatPairs,
                                       [attacker |-> id, target |-> targetId,
                                        damage |-> unit.attackDamage]) ]
     ELSE IF distSquared > ATTACK_RANGE_SQ
       THEN SetUnit(d, MoveWithCollision(d, unit, target.position, nowMs, rndDir))
     ELSE d

\* the decision r = [d, target] of a unit, carried out
Engage(r, id, nowMs, rndDir) ==
  IF r.target # Undefined THEN CombatStep(r.d, id, r.target, nowMs, rndDir) ELSE r.d

\* the body of the loop over movableUnits for one unit
Behave(d, id, nowMs, rnd, rndDir) ==
  LET unit == UnitOf(d.units, id)
      isPlayerUnit == IsHumanOwner(d.players, unit.ownerId)
      offset == Get(d.aiThinkingOffset, id, 0)
      shouldThinkThisTick == isPlayerUnit \/ (d.tickCounter + offset) % 2 = 0
      d0 == IF offset = 0 THEN [d EXCEPT !.aiThinkingOffset = Put(d.aiThinkingOffset, id, rnd)]
            ELSE d
      hasOrder == id \in DOMAIN d0.unitOrders
      hasPatrol == id \in DOMAIN d0.queenPatrols
      decided ==
        IF isPlayerUnit THEN PlayerBranch(d0, id, nowMs, rndDir)
        ELSE IF hasOrder THEN AiOrder(d0, id, nowMs, rndDir)
        ELSE IF hasPatrol /\ unit.kind = "Queen" THEN QueenPatrol(d0, id, nowMs, rndDir)
        ELSE IF ~hasOrder /\ ~hasPatrol
          THEN IF shouldThinkThisTick THEN AiThink(d0, id) ELSE AiCoast(d0, id, nowMs)
        ELSE [d |-> d0, target |-> Undefined]
  IN Engage(decided, id, nowMs, rndDir)

RECURSIVE BehaveLoop(_, _, _, _, _, _, _)
BehaveLoop(d, movableUnits, lo, hi, nowMs, rnd, rndDir) ==
  IF d.tickCounter >= 0 /\ lo < hi
    THEN BehaveLoop(BehaveLoop(d, movableUnits, lo, (lo + hi) \div 2, nowMs, rnd, rndDir),
                    movableUnits, (lo + hi) \div 2 + 1, hi, nowMs, rnd, rndDir)
    ELSE IF lo = hi THEN Behave(d, movableUnits[lo], nowMs, rnd, rndDir) ELSE d

-----------------------------------------------------------------------------
(* tick: combat application, dead-unit removal, attacker cleanup *)

\* one queued pair, dropped when its attacker has fallen earlier in the batch
ApplyPairOfLiving(d, pair, nowMs, rndDir) ==
  LET attacker == UnitOf(d.units, pair.attacker)
      hit == [UnitOf(d.units, pair.target) EXCEPT !.hp = @ - pair.damage]
      d1 == [ SetUnit(d, hit) EXCEPT !.deadUnitsToRemove =
                IF hit.hp <= 0 THEN Append(d.deadUnitsToRemove, hit.id)
                ELSE d.deadUnitsToRemove ]
  IN IF attacker.hp <= 0 THEN d ELSE d1

\* one queued pair: damage, then knockback of a surviving target
ApplyPair(d, pair, nowMs, rndDir) ==
  LET attacker == UnitOf(d.units, pair.attacker)
      hit == [UnitOf(d.units, pair.target) EXCEPT !.hp = @ - pair.damage]
      d1 == [ SetUnit(d, hit) EXCEPT !.deadUnitsToRemove =
                IF hit.hp <= 0 THEN Append(d.deadUnitsToRemove, hit.id)
                ELSE d.deadUnitsToRemove ]
      vec == subtract3D(hit.position, attacker.position)
      newPosition == Pos(hit.position.x + Along(vec, vec.x, KNOCKBACK_DISTANCE), hit.position.y,
                         hit.position.z + Along(vec, vec.z, KNOCKBACK_DISTANCE))
  IN IF hit.hp > 0 /\ (vec.x # 0 \/ vec.z # 0)
       THEN SetUnit(d1, checkCollision(newPosition, hit, d1.units, d1.selectedUnitIds,
                                       d1.localPlayerId, d1.unitOrders, nowMs, rndDir))
       ELSE d1

RECURSIVE ApplyCombat(_, _, _, _, _)
ApplyCombat(d, lo, hi, nowMs, rndDir) ==
  IF d.tickCounter >= 0 /\ lo < hi
    THEN ApplyCombat(ApplyCombat(d, lo, (lo + hi) \div 2, nowMs, rndDir),
                     (lo + hi) \div 2 + 1, hi, nowMs, rndDir)
    ELSE IF lo = hi THEN ApplyPair(d, d.combatPairs[lo], nowMs, rndDir) ELSE d

\* COMBAT APPLICATION: the pairs queued by the loop over movableUnits, in order
Fight(d, nowMs, rndDir) == ApplyCombat(d, 1, Len(d.combatPairs), nowMs, rndDir)

\* references to dead units are cleared on every unit, then the dead leave the array
\* the dead taken out of currentAttackers only (not the program's)
ForgetDeadAttackers(u, dead) ==
  [ u EXCEPT
      !.currentAttackers =
        IF HasAttackers(u)
          THEN LET Lives(a) == a \notin dead IN <<SelectSeq(Attackers(u), Lives)>>
          ELSE << >> ]

ForgetDead(u, dead) ==
  [ u EXCEPT
      !.priorityAttacker = IF @ \in dead THEN Undefined ELSE @,
      !.lastCombatTargetId = IF @ \in dead THEN Undefined ELSE @,
      !.lastCombatEngagementMs = IF u.lastCombatTargetId \in dead THEN Undefined ELSE @,
      !.currentAttackers =
        IF HasAttackers(u)
          THEN LET Lives(a) == a \notin dead IN <<SelectSeq(Attackers(u), Lives)>>
          ELSE << >> ]

\* the removal left out: the dead stay in the array
LeaveDead(d) == [d EXCEPT !.deadUnitsToRemove = << >>]

RemoveDead(d) ==
  LET dead == Range(d.deadUnitsToRemove)
      cleaned == [ j \in 1..Len(d.units) |-> ForgetDead(d.units[j], dead) ]
      Survives(u) == u.hp > 0 /\ u.id \notin dead
      remaining == SelectSeq(cleaned, Survives)
      cacheKeys == { k \in DOMAIN d.targetCache : d.targetCache[k] \notin dead }
  IN IF Len(d.deadUnitsToRemove) > 0
       THEN [ d EXCEPT !.units = remaining,
                       !.targetCache = [ k \in cacheKeys |-> d.targetCache[k] ],
                       !.deadUnitsToRemove = << >>,
                       !.spatialGrid = buildFromUnits(remaining) ]
       ELSE d

ATTACKER_RANGE_SQ == 25000000

\* the attackers kept as they are (not the program's)
KeepAttackers(us, u) == u

\* FINAL: attackers that are gone, dead or more than 50 units away are dropped
PruneAttackers(us, u) ==
  LET Valid(a) == /\ HasUnit(us, a) /\ UnitOf(us, a).hp > 0
                  /\ distanceSquared3D(u.position, UnitOf(us, a).position) <= ATTACKER_RANGE_SQ
      left == SelectSeq(Attackers(u), Valid)
  IN IF HasAttackers(u) /\ Len(Attackers(u)) > 0
       THEN [u EXCEPT !.currentAttackers = IF Len(left) = 0 THEN << >> ELSE <<left>>]
       ELSE u

CleanUpAttackers(d) ==
  [d EXCEPT !.units = [ j \in 1..Len(d.units) |-> PruneAttackers(d.units, d.units[j]) ]]

-----------------------------------------------------------------------------
(* Bridge (gate) animation *)

TRIGGER_RADIUS == 1000

FRAME_DURATION == 1000

RIGHT_TRIGGER_ZONE == [x |-> 1500, z |-> 0]

LEFT_TRIGGER_ZONE == [x |-> -1500, z |-> 0]

\* some King or Queen of the local player is within the radius of the zone
isPlayerInZone(us, localId, zone) ==
  \E j \in DOMAIN us :
    /\ us[j].ownerId = localId /\ us[j].kind \in {"King", "Queen"}
    /\ (us[j].position.x - zone.x) * (us[j].position.x - zone.x)
       + (us[j].position.z - zone.z) * (us[j].position.z - zone.z)
       <= TRIGGER_RADIUS * TRIGGER_RADIUS

\* a lowering that skips the frame Almost_Up (not the program's)
SkipLoweringFrame(frame) ==
  CASE frame = "Fully_Up" -> "Almost_Down"
    [] frame = "Almost_Up" -> "Almost_Down"
    [] frame = "Almost_Down" -> "Fully_Down"
    [] OTHER -> frame

NextLoweringFrame(frame) ==
  CASE frame = "Fully_Up" -> "Almost_Up"
    [] frame = "Almost_Up" -> "Almost_Down"
    [] frame = "Almost_Down" -> "Fully_Down"
    [] OTHER -> frame

NextRaisingFrame(frame) ==
  CASE frame = "Fully_Down" -> "Almost_Down"
    [] frame = "Almost_Down" -> "Almost_Up"
    [] frame = "Almost_Up" -> "Fully_Up"
    [] OTHER -> frame

\* a gate that keeps its flag when it starts to rise
updateSingleBridgeAnimationFlagged(bridge, inZone, nowMs) ==
  CASE bridge.currentState = "up" ->
         IF inZone /\ ~bridge.triggeredByPlayer
           THEN [bridge EXCEPT !.currentState = "lowering", !.animationStartMs = nowMs,
                               !.frameStartMs = nowMs, !.triggeredByPlayer = TRUE]
           ELSE bridge
    [] bridge.currentState = "lowering" ->
         IF nowMs - bridge.frameStartMs >= FRAME_DURATION /\ bridge.currentFrame # "Fully_Down"
           THEN [bridge EXCEPT !.currentFrame = NextLoweringFrame(bridge.currentFrame),
                               !.frameStartMs = nowMs,
                               !.currentState = IF bridge.currentFrame = "Almost_Down"
                                                THEN "down" ELSE @]
           ELSE bridge
    [] bridge.currentState = "down" ->
         IF ~inZone
           THEN [bridge EXCEPT !.currentState = "raising", !.animationStartMs = nowMs,
                               !.frameStartMs = nowMs]
           ELSE bridge
    [] bridge.currentState = "raising" ->
         IF nowMs - bridge.frameStartMs >= FRAME_DURATION /\ bridge.currentFrame # "Fully_Up"
           THEN [bridge EXCEPT !.currentFrame = NextRaisingFrame(bridge.currentFrame),
                               !.frameStartMs = nowMs,
                               !.currentState = IF bridge.currentFrame = "Almost_Up"
                                                THEN "up" ELSE @]
           ELSE bridge

\* a gate that advances a frame in every tick
updateSingleBridgeAnimationHasty(bridge, inZone, nowMs) ==
  CASE bridge.currentState = "up" ->
         IF inZone /\ ~bridge.triggeredByPlayer
           THEN [bridge EXCEPT !.currentState = "lowering", !.animationStartMs = nowMs,
                               !.frameStartMs = nowMs, !.triggeredByPlayer = TRUE]
           ELSE bridge
    [] bridge.currentState = "lowering" ->
         IF bridge.currentFrame # "Fully_Down"
           THEN [bridge EXCEPT !.currentFrame = NextLoweringFrame(bridge.currentFrame),
                               !.frameStartMs = nowMs,
                               !.currentState = IF bridge.currentFrame = "Almost_Down"
                                                THEN "down" ELSE @]
           ELSE bridge
    [] bridge.currentState = "down" ->
         IF ~inZone
           THEN [bridge EXCEPT !.currentState = "raising", !.animationStartMs = nowMs,
                               !.frameStartMs = nowMs, !.triggeredByPlayer = FALSE]
           ELSE bridge
    [] bridge.currentState = "raising" ->
         IF bridge.currentFrame # "Fully_Up"
           THEN [bridge EXCEPT !.currentFrame = NextRaisingFrame(bridge.currentFrame),
                               !.frameStartMs = nowMs,
                               !.currentState = IF bridge.currentFrame = "Almost_Up"
                                                THEN "up" ELSE @]
           ELSE bridge

updateSingleBridgeAnimation(bridge, inZone, nowMs) ==
  CASE bridge.currentState = "up" ->
         IF inZone /\ ~bridge.triggeredByPlayer
           THEN [bridge EXCEPT !.currentState = "lowering", !.animationStartMs = nowMs,
                               !.frameStartMs = nowMs, !.triggeredByPlayer = TRUE]
           ELSE bridge
    [] bridge.currentState = "lowering" ->
         IF nowMs - bridge.frameStartMs >= FRAME_DURATION /\ bridge.currentFrame # "Fully_Down"
           THEN [bridge EXCEPT !.currentFrame = NextLoweringFrame(bridge.currentFrame),
                               !.frameStartMs = nowMs,
                               !.currentState = IF bridge.currentFrame = "Almost_Down"
                                                THEN "down" ELSE @]
           ELSE bridge
    [] bridge.currentState = "down" ->
         IF ~inZone
           THEN [bridge EXCEPT !.currentState = "raising", !.animationStartMs = nowMs,
                               !.frameStartMs = nowMs, !.triggeredByPlayer = FALSE]
           ELSE bridge
    [] bridge.currentState = "raising" ->
         IF nowMs - bridge.frameStartMs >= FRAME_DURATION /\ bridge.currentFrame # "Fully_Up"
           THEN [bridge EXCEPT !.currentFrame = NextRaisingFrame(bridge.currentFrame),
                               !.frameStartMs = nowMs,
                               !.currentState = IF bridge.currentFrame = "Almost_Up"
                                                THEN "up" ELSE @]
           ELSE bridge

\* gates that both follow the right trigger zone (not the program's)
updateBridgeAnimationsCoupled(d, nowMs) ==
  [ d EXCEPT
      !.bridgeState.rightBridge =
         updateSingleBridgeAnimation(@, isPlayerInZone(d.units, d.localPlayerId,
                                                       RIGHT_TRIGGER_ZONE), nowMs),
      !.bridgeState.leftBridge =
         updateSingleBridgeAnimation(@, isPlayerInZone(d.units, d.localPlayerId,
                                                       RIGHT_TRIGGER_ZONE), nowMs) ]

updateBridgeAnimations(d, nowMs) ==
  [ d EXCEPT
      !.bridgeState.rightBridge =
         updateSingleBridgeAnimation(@, isPlayerInZone(d.units, d.localPlayerId,
                                                       RIGHT_TRIGGER_ZONE), nowMs),
      !.bridgeState.leftBridge =
         updateSingleBridgeAnimation(@, isPlayerInZone(d.units, d.localPlayerId,
                                                       LEFT_TRIGGER_ZONE), nowMs) ]

-----------------------------------------------------------------------------
(* Win condition *)

WIN_CHECK_INTERVAL == 5000

\* the number of Bases, Kings and Queens a player holds
Strongholds(us, playerId) ==
  Cardinality({ j \in DOMAIN us : us[j].ownerId = playerId
                                  /\ us[j].kind \in {"Base", "King", "Queen"} })

\* a check that counts Bases alone
BasesDefeated(us, ps, playerId) ==
  \A j \in DOMAIN ps : ps[j].id # playerId =>
    ~\E k \in DOMAIN us : us[k].ownerId = ps[j].id /\ us[k].kind = "Base"

\* allEnemiesDefeated for playerId
AllEnemiesDefeated(us, ps, playerId) ==
  \A j \in DOMAIN ps : ps[j].id # playerId => Strongholds(us, ps[j].id) = 0

RECURSIVE FirstWinner(_, _, _)
FirstWinner(us, ps, j) ==
  IF j > Len(ps) THEN Undefined
  ELSE IF AllEnemiesDefeated(us, ps, ps[j].id) THEN ps[j].id
  ELSE FirstWinner(us, ps, j + 1)

checkWinConditions(d) ==
  LET w == FirstWinner(d.units, d.players, 1)
  IN IF w # Undefined THEN [d EXCEPT !.gameOver = TRUE, !.winner = w] ELSE d

\* the win check without the test of gameOver
WinCheckAfterTheEnd(d, nowMs) ==
  IF nowMs - d.lastWinCheckMs >= WIN_CHECK_INTERVAL
    THEN [checkWinConditions(d) EXCEPT !.lastWinCheckMs = nowMs]
    ELSE d

\* the throttled win check at the end of tick
WinCheck(d, nowMs) ==
  IF ~d.gameOver /\ nowMs - d.lastWinCheckMs >= WIN_CHECK_INTERVAL
    THEN [checkWinConditions(d) EXCEPT !.lastWinCheckMs = nowMs]
    ELSE d

-----------------------------------------------------------------------------
(* tick *)

\* the draft tick works on
Draft ==
  [ units |-> units, unitOrders |-> unitOrders, queenPatrols |-> queenPatrols,
    selectedUnitIds |-> selectedUnitIds, players |-> players,
    localPlayerId |-> localPlayerId,
    lastSpawnAtMsByQueenId |-> lastSpawnAtMsByQueenId,
    lastRegenAtMsByUnitId |-> lastRegenAtMsByUnitId,
    unitCountCache |-> unitCountCache, spatialGrid |-> spatialGrid,
    tickCounter |-> tickCounter, aiThinkingOffset |-> aiThinkingOffset,
    targetCache |-> targetCache, lastWinCheckMs |-> lastWinCheckMs,
    gameOver |-> gameOver, winner |-> winner, bridgeState |-> bridgeState,
    distanceCache |-> distanceCache, nextId |-> nextId,
    combatPairs |-> << >>, deadUnitsToRemove |-> << >> ]

\* the draft after the categorisation pass
Categorised(d) ==
  [d EXCEPT !.tickCounter = @ + 1, !.spatialGrid = buildFromUnits(d.units),
            !.unitCountCache = CountUnits(d.units)]

\* tick, up to the loop over movableUnits: categorisation, regeneration, spawning
Prepare(d, nowMs, rndDir) ==
  LET queens == IdsOf(SelectSeq(d.units, IsQueen))
      unitsNeedingHealing == IdsOf(SelectSeq(d.units, NeedsHealing))
  IN SpawnLoop(Regenerate(Categorised(d), unitsNeedingHealing, nowMs),
               queens, 1, Len(queens), nowMs, rndDir)

\* tick, the loop over the movableUnits of the categorisation pass
Decide(d, movableUnits, nowMs, rnd, rndDir) ==
  BehaveLoop(d, movableUnits, 1, Len(movableUnits), nowMs, rnd, rndDir)

\* tick, after the loop: combat application, removal of the dead, attacker
\* cleanup, bridges, win check
Conclude(d, nowMs, rndDir) ==
  WinCheck(updateBridgeAnimations(CleanUpAttackers(RemoveDead(Fight(d, nowMs, rndDir))),
                                  nowMs), nowMs)

-----------------------------------------------------------------------------
(* Inputs of the model *)

FramePeriods == {500, 2500}

AnimalPools == { <<"Bee", "Bear", "Fox">>, <<"Bee", "Bee", "Bee">> }

\* what Math.random yields in one tick: the thinking offset floor(random * 2) of
\* the units that draw one, and the direction (cos, sin, in hundredths) in which
\* coincident units are pushed apart
Chance == { [offset |-> 0, dir |-> <<100, 0>>], [offset |-> 1, dir |-> <<-100, 0>>] }

\* unitIds of a moveCommand: a local Queen, a local Base, a local Queen together
\* with an AI Queen, an id of no unit
CommandGroups == { <<2>>, <<1>>, <<5, 11>>, <<99>> }

MoveTargets == { Pos(4900, 0, 0) }

\* queenId of a setPatrol: a local Queen, a local King, an AI Queen, an id of no unit
PatrolIds == { 5, 6, 11, 99 }

PatrolStart == Pos(4300, 0, 0)

PatrolEnd == Pos(4300, 0, 500)

-----------------------------------------------------------------------------
(* State machine *)

\* the store after initializeGame on the given map, driven at one of the periods
Begin(layout, periods) ==
  /\ players = InitialPlayers(layout)
  /\ frameMs \in periods
  /\ localPlayerId = LocalId
  /\ units = << >>
  /\ unitOrders = << >>
  /\ queenPatrols = << >>
  /\ selectedUnitIds = << >>
  /\ selectedAnimalPool = <<"Bee", "Bear", "Fox">>
  /\ lastSpawnAtMsByQueenId = << >>
  /\ lastRegenAtMsByUnitId = << >>
  /\ unitCountCache = << >>
  /\ spatialGrid = << >>
  /\ tickCounter = 0
  /\ aiThinkingOffset = << >>
  /\ targetCache = << >>
  /\ lastWinCheckMs = 0
  /\ matchStarted = FALSE
  /\ gameOver = FALSE
  /\ winner = Undefined
  /\ isPaused = FALSE
  /\ bridgeState = InitialBridgeState
  /\ distanceCache = << >>
  /\ clock = 0
  /\ nextId = 1
  /\ accumulator = 0
  /\ ticksRun = 0
  /\ commandsIssued = 0
  /\ lastOp = [op |-> "init"]

Init == Begin("skirmish", {2500})

\* handleStartGame of the lobby: chooseAnimalsForLocal(pool); initializeGame(); startMatch()
StartGame(pool) ==
  /\ ~matchStarted
  /\ selectedAnimalPool' = pool
  /\ units' = startMatchUnits(players, pool, nextId)
  /\ nextId' = nextId + 18
  /\ matchStarted' = TRUE
  /\ gameOver' = FALSE
  /\ winner' = Undefined
  /\ selectedUnitIds' = << >>
  /\ unitOrders' = << >>
  /\ lastSpawnAtMsByQueenId' = << >>
  /\ lastRegenAtMsByUnitId' = << >>
  /\ queenPatrols' = << >>
  /\ unitCountCache' = << >>
  /\ spatialGrid' = << >>
  /\ tickCounter' = 0
  /\ aiThinkingOffset' = << >>
  /\ targetCache' = << >>
  /\ lastWinCheckMs' = 0
  /\ bridgeState' = InitialBridgeState
  /\ lastOp' = [op |-> "startMatch"]
  /\ UNCHANGED <<players, localPlayerId, isPaused, distanceCache, clock, frameMs, accumulator, ticksRun,
                 commandsIssued>>

\* startMatch() on the store as it stands (a match may be running or over);
\* queenPatrols and lastRegenAtMsByUnitId are not among the fields it sets
startMatch ==
  /\ commandsIssued < MaxCommands
  /\ units' = startMatchUnits(players, selectedAnimalPool, nextId)
  /\ nextId' = nextId + 18
  /\ matchStarted' = TRUE
  /\ gameOver' = FALSE
  /\ winner' = Undefined
  /\ selectedUnitIds' = << >>
  /\ unitOrders' = << >>
  /\ lastSpawnAtMsByQueenId' = << >>
  /\ unitCountCache' = << >>
  /\ spatialGrid' = << >>
  /\ tickCounter' = 0
  /\ aiThinkingOffset' = << >>
  /\ targetCache' = << >>
  /\ lastWinCheckMs' = 0
  /\ bridgeState' = InitialBridgeState
  /\ commandsIssued' = commandsIssued + 1
  /\ lastOp' = [ op |-> "startMatch",
                 before |-> [ gameOver |-> gameOver, winner |-> winner,
                              ordered |-> DOMAIN unitOrders,
                              selectedUnitIds |-> selectedUnitIds,
                              queens |-> DOMAIN lastSpawnAtMsByQueenId,
                              rightBridge |-> bridgeState.rightBridge.currentState ] ]
  /\ UNCHANGED <<queenPatrols, lastRegenAtMsByUnitId, selectedAnimalPool, players,
                 localPlayerId, isPaused, distanceCache, clock, frameMs, accumulator, ticksRun>>

\* chooseAnimalsForLocal(animals): the pool is the first three of them
chooseAnimalsForLocal(animals) ==
  /\ selectedAnimalPool' = SubSeq(animals, 1, IF Len(animals) < 3 THEN Len(animals) ELSE 3)
  /\ lastOp' = [op |-> "chooseAnimalsForLocal", animals |-> animals]
  /\ UNCHANGED <<units, unitOrders, queenPatrols, selectedUnitIds, players, localPlayerId,
                 lastSpawnAtMsByQueenId, lastRegenAtMsByUnitId, unitCountCache, spatialGrid,
                 tickCounter, aiThinkingOffset, targetCache, lastWinCheckMs, matchStarted,
                 gameOver, winner, isPaused, bridgeState, distanceCache, clock, frameMs, accumulator,
                 nextId, ticksRun, commandsIssued>>

\* selectUnits(unitIds)
selectUnits(unitIds) ==
  /\ selectedUnitIds' = unitIds
  /\ lastOp' = [op |-> "selectUnits", unitIds |-> unitIds]
  /\ UNCHANGED <<units, unitOrders, queenPatrols, selectedAnimalPool, players, localPlayerId,
                 lastSpawnAtMsByQueenId, lastRegenAtMsByUnitId, unitCountCache, spatialGrid,
                 tickCounter, aiThinkingOffset, targetCache, lastWinCheckMs, matchStarted,
                 gameOver, winner, isPaused, bridgeState, distanceCache, clock, frameMs, accumulator,
                 nextId, ticksRun, commandsIssued>>

\* one frame of the driver that runs one tick of a started, unpaused match:
\* tick(dtSec, nowMs); rnd is the value Math.random yields for the thinking
\* offsets of this tick and rndDir the direction it yields for coincident units;
\* lastOp keeps the combatPairs the loop over movableUnits has queued
Frame(rnd, rndDir) ==
  /\ matchStarted /\ ~isPaused
  /\ \E prepared \in {Prepare(Draft, clock + frameMs, rndDir)} :
     \E decided \in {Decide(prepared, IdsOf(SelectSeq(units, IsMovable)),
                             clock + frameMs, rnd, rndDir)} :
     \E d \in {Conclude(decided, clock + frameMs, rndDir)} :
        /\ units' = d.units
        /\ unitOrders' = d.unitOrders
        /\ queenPatrols' = d.queenPatrols
        /\ lastSpawnAtMsByQueenId' = d.lastSpawnAtMsByQueenId
        /\ lastRegenAtMsByUnitId' = d.lastRegenAtMsByUnitId
        /\ unitCountCache' = d.unitCountCache
        /\ spatialGrid' = d.spatialGrid
        /\ tickCounter' = d.tickCounter
        /\ aiThinkingOffset' = d.aiThinkingOffset
        /\ targetCache' = d.targetCache
        /\ lastWinCheckMs' = d.lastWinCheckMs
        /\ gameOver' = d.gameOver
        /\ winner' = d.winner
        /\ bridgeState' = d.bridgeState
        /\ distanceCache' = d.distanceCache
        /\ nextId' = d.nextId
        /\ lastOp' = [op |-> "tick", combatPairs |-> decided.combatPairs]
  /\ clock' = clock + frameMs
  /\ ticksRun' = ticksRun + 1
  /\ UNCHANGED <<selectedUnitIds, selectedAnimalPool, players, localPlayerId, matchStarted,
                 isPaused, frameMs, accumulator, commandsIssued>>

Tick(limit, rnd, rndDir) == ticksRun < limit /\ Frame(rnd, rndDir)

\* the loop body without the ownership test
OrderAnyUnit(s, id, target) ==
  LET j == IndexOfId(s.units, id)
  IN IF j = 0 THEN s
     ELSE [ units |-> [s.units EXCEPT ![j] = [@ EXCEPT !.unitState = "moving_to_order"]],
            unitOrders |-> Put(s.unitOrders, id, target) ]

\* the loop body of moveCommand for one id
OrderUnit(s, id, target) ==
  LET j == IndexOfId(s.units, id)
  IN IF j = 0 \/ s.units[j].ownerId # localPlayerId THEN s
     ELSE [ units |-> [ s.units EXCEPT ![j] =
                          [ @ EXCEPT !.unitState = "moving_to_order",
                                     !.lastCombatTargetId = Undefined,
                                     !.lastCombatEngagementMs = Undefined,
                                     !.priorityAttacker = Undefined,
                                     !.collisionAttempts = 0,
                                     !.movementPausedUntilMs = Undefined,
                                     !.firstBlockedAtMs = Undefined ] ],
            unitOrders |-> Put(s.unitOrders, id, target) ]

RECURSIVE OrderLoop(_, _, _, _)
OrderLoop(s, unitIds, j, target) ==
  IF j > Len(unitIds) THEN s
  ELSE OrderLoop(OrderUnit(s, unitIds[j], target), unitIds, j + 1, target)

\* moveCommand(unitIds, target), issued from the match screen
moveCommand(unitIds, target) ==
  /\ matchStarted
  /\ commandsIssued < MaxCommands
  /\ LET s == OrderLoop([units |-> units, unitOrders |-> unitOrders], unitIds, 1, target)
     IN units' = s.units /\ unitOrders' = s.unitOrders
  /\ commandsIssued' = commandsIssued + 1
  /\ lastOp' = [op |-> "moveCommand", unitIds |-> unitIds, target |-> target]
  /\ UNCHANGED <<queenPatrols, selectedUnitIds, selectedAnimalPool, players, localPlayerId,
                 lastSpawnAtMsByQueenId, lastRegenAtMsByUnitId, unitCountCache, spatialGrid,
                 tickCounter, aiThinkingOffset, targetCache, lastWinCheckMs, matchStarted,
                 gameOver, winner, isPaused, bridgeState, distanceCache, clock, frameMs, accumulator,
                 nextId, ticksRun>>

\* setPatrol is accepted for a Queen of the local player
PatrolAccepted(queenId) ==
  /\ HasUnit(units, queenId)
  /\ UnitOf(units, queenId).ownerId = localPlayerId
  /\ UnitOf(units, queenId).kind = "Queen"

\* setPatrol without the removal of the move order
setPatrolKeepingOrder(queenId, startPosition, endPosition) ==
  /\ matchStarted
  /\ commandsIssued < MaxCommands
  /\ IF PatrolAccepted(queenId)
       THEN queenPatrols' = Put(queenPatrols, queenId,
                                [ startPosition |-> startPosition,
                                  endPosition |-> endPosition, currentTarget |-> "end" ])
       ELSE UNCHANGED queenPatrols
  /\ commandsIssued' = commandsIssued + 1
  /\ lastOp' = [ op |-> "setPatrol", queenId |-> queenId, startPosition |-> startPosition,
                  endPosition |-> endPosition, hadOrder |-> queenId \in DOMAIN unitOrders ]
  /\ UNCHANGED <<units, unitOrders, selectedUnitIds, selectedAnimalPool, players,
                 localPlayerId, lastSpawnAtMsByQueenId, lastRegenAtMsByUnitId,
                 unitCountCache, spatialGrid, tickCounter, aiThinkingOffset, targetCache,
                 lastWinCheckMs, matchStarted, gameOver, winner, isPaused, bridgeState,
                 distanceCache, clock, frameMs, accumulator, nextId, ticksRun>>

\* setPatrol(queenId, startPosition, endPosition), issued from the match screen
setPatrol(queenId, startPosition, endPosition) ==
  /\ matchStarted
  /\ commandsIssued < MaxCommands
  /\ IF PatrolAccepted(queenId)
       THEN /\ queenPatrols' = Put(queenPatrols, queenId,
                                   [ startPosition |-> startPosition,
                                     endPosition |-> endPosition, currentTarget |-> "end" ])
            /\ unitOrders' = Del(unitOrders, queenId)
       ELSE UNCHANGED <<queenPatrols, unitOrders>>
  /\ commandsIssued' = commandsIssued + 1
  /\ lastOp' = [ op |-> "setPatrol", queenId |-> queenId, startPosition |-> startPosition,
                  endPosition |-> endPosition, hadOrder |-> queenId \in DOMAIN unitOrders ]
  /\ UNCHANGED <<units, selectedUnitIds, selectedAnimalPool, players, localPlayerId,
                 lastSpawnAtMsByQueenId, lastRegenAtMsByUnitId, unitCountCache, spatialGrid,
                 tickCounter, aiThinkingOffset, targetCache, lastWinCheckMs, matchStarted,
                 gameOver, winner, isPaused, bridgeState, distanceCache, clock, frameMs, accumulator,
                 nextId, ticksRun>>

Next ==
  \/ \E pool \in AnimalPools : StartGame(pool)
  \/ \E c \in Chance : Tick(MaxTicks, c.offset, c.dir)
  \/ \E unitIds \in CommandGroups, target \in MoveTargets : moveCommand(unitIds, target)
  \/ \E queenId \in PatrolIds : setPatrol(queenId, PatrolStart, PatrolEnd)

Spec == Init /\ [][Next]_vars

-----------------------------------------------------------------------------
(* A battle left to itself: the match is started and the driver runs, no command
   is issued *)

BattleNext ==
  \/ \E pool \in AnimalPools : StartGame(pool)
  \/ \E c \in Chance : Tick(MaxBattleTicks, c.offset, c.dir)

BattleSpec ==
  /\ Begin("skirmish", FramePeriods)
  /\ [][BattleNext]_vars

-----------------------------------------------------------------------------
(* Undisturbed production: the two players are out of reach of each other *)

SpawnNext ==
  \/ \E pool \in AnimalPools : StartGame(pool)
  \/ \E c \in Chance : Tick(MaxSpawnTicks, c.offset, c.dir)

SpawnSpec ==
  /\ Begin("apart", {10000})
  /\ [][SpawnNext]_vars

-----------------------------------------------------------------------------
(* The last stage of a match: the local player is down to one Queen and one
   spawned Unit, the AI to one King that stands between them, 3 units from
   each.  The store is as a tick has left it at time LATE_MS; the hit points of
   the Queen and the King, the number of ticks run and the time of the last win
   check vary. *)

LATE_MS == 600000

LateBoards ==
  [ queenHp : {40, 120}, kingHp : {15, 25, 300}, tickCounter : {240, 241},
    lastWinCheckMs : {LATE_MS - 2500, LATE_MS} ]

LateUnits(board) ==
  << [ createQueen(2, LocalId, "Bee", Pos(0, 25, 0)) EXCEPT
         !.hp = board.queenHp, !.unitState = "idle" ],
     [ createKing(12, AiId, "Owl", Pos(300, 25, 0)) EXCEPT !.hp = board.kingHp ],
     [ createUnit(19, LocalId, "Bee", Pos(600, 0, 0)) EXCEPT !.unitState = "idle" ] >>

\* the store as a tick has left it at time LATE_MS, driven at one of the periods
StartAt(stores, periods) ==
  /\ players = InitialPlayers("skirmish")
  /\ frameMs \in periods
  /\ localPlayerId = LocalId
  /\ \E store \in stores :
       /\ units = store.units
       /\ lastWinCheckMs = store.lastWinCheckMs
       /\ tickCounter = store.tickCounter
       /\ unitCountCache = CountUnits(store.units)
       /\ spatialGrid = buildFromUnits(store.units)
       /\ lastSpawnAtMsByQueenId =
            [ id \in { store.units[j].id : j \in { k \in DOMAIN store.units :
                                                     store.units[k].kind = "Queen" } }
                |-> LATE_MS ]
  /\ unitOrders = << >>
  /\ queenPatrols = << >>
  /\ selectedUnitIds = << >>
  /\ selectedAnimalPool = <<"Bee", "Bear", "Fox">>
  /\ lastRegenAtMsByUnitId = << >>
  /\ aiThinkingOffset = << >>
  /\ targetCache = << >>
  /\ matchStarted = TRUE
  /\ gameOver = FALSE
  /\ winner = Undefined
  /\ isPaused = FALSE
  /\ bridgeState = InitialBridgeState
  /\ distanceCache = << >>
  /\ clock = LATE_MS
  /\ nextId = IF Len(units) > 0 /\ units[Len(units)].id >= 20
                THEN units[Len(units)].id + 1 ELSE 20
  /\ accumulator = 0
  /\ ticksRun = 0
  /\ commandsIssued = 0
  /\ lastOp = [op |-> "init"]

\* the store late in a match on one of the boards, driven at one of the periods
LateStart(boards, periods) ==
  StartAt({ [ units |-> LateUnits(board), lastWinCheckMs |-> board.lastWinCheckMs,
              tickCounter |-> board.tickCounter ] : board \in boards }, periods)

LateNext == \E c \in Chance : Tick(MaxLateTicks, c.offset, c.dir)

LateSpec ==
  /\ LateStart(LateBoards, {2500})
  /\ [][LateNext]_vars

-----------------------------------------------------------------------------
(* Marching under attack: on the board of the last stage the local Queen and
   Unit are ordered toward or away from the AI King that attacks them *)

MarchBoards ==
  [ queenHp : {120}, kingHp : {300}, tickCounter : {240}, lastWinCheckMs : {LATE_MS} ]

\* unitIds of a moveCommand on the board: the Queen, the Unit
MarchGroups == { <<2>>, <<19>> }

\* targets 1 unit from the Queen: toward the King, away from it, and 0.04
\* unit beyond the latter
MarchTargets == { Pos(100, 25, 0), Pos(-100, 25, 0), Pos(-104, 25, 0) }

MarchNext ==
  \/ \E c \in Chance : Tick(MaxMarchTicks, c.offset, c.dir)
  \/ \E unitIds \in MarchGroups, target \in MarchTargets : moveCommand(unitIds, target)
  \/ setPatrol(2, PatrolStart, PatrolEnd)

MarchSpec ==
  /\ LateStart(MarchBoards, {500, 1000})
  /\ [][MarchNext]_vars

-----------------------------------------------------------------------------
(* At the gates: a King of the local player stands 0.1 unit inside the trigger
   zone of one gate, on some boards with a Queen as far inside the zone of the
   other gate; they are ordered just outside their zone and back in.  The only
   other unit is a Base of the AI player far away. *)

\* x of the King, x of the Queen (0: no Queen on the board)
GateBoards ==
  { [king |-> 2490, queen |-> 0], [king |-> -2490, queen |-> 0],
    [king |-> 2490, queen |-> -2490] }

GateUnits(board) ==
  (IF board.queen = 0 THEN << >>
   ELSE << [ createQueen(2, LocalId, "Bee", Pos(board.queen, 25, 0)) EXCEPT
               !.unitState = "idle" ] >>)
  \o << [ createKing(3, LocalId, "Bee", Pos(board.king, 25, 0)) EXCEPT !.unitState = "idle" ],
        createBase(10, AiId, "Owl", Pos(0, 25, 20000)) >>

\* unitIds of a moveCommand on the board: the Queen, the King
GateGroups == { <<2>>, <<3>> }

\* targets on the side where the first unit of the group stands (the right side
\* if there is no such unit): 0.6 unit outside the zone, 0.6 inside
GateTargets(us, unitIds) ==
  { Pos(x * (IF HasUnit(us, unitIds[1]) /\ UnitOf(us, unitIds[1]).position.x < 0
               THEN -1 ELSE 1), 25, 0) : x \in {2560, 2440} }

GateNext ==
  \/ \E c \in Chance : Tick(MaxGateTicks, c.offset, c.dir)
  \/ \E unitIds \in GateGroups : \E target \in GateTargets(units, unitIds) :
       moveCommand(unitIds, target)

GateSpec ==
  /\ StartAt({ [ units |-> GateUnits(board), lastWinCheckMs |-> LATE_MS, tickCounter |-> 240 ]
               : board \in GateBoards }, {250, 500})
  /\ [][GateNext]_vars

-----------------------------------------------------------------------------
(* A duel: one Unit of the local player and one of the AI player, 3 units
   apart, both idle and without orders, with 100 hit points, damage 20 and
   speed 10 *)

DuelUnits ==
  << [ NewUnit(18, LocalId, "Owl", "Unit", Pos(0, 0, 0), 100, 20, 100000)
         EXCEPT !.unitState = "idle" ],
     NewUnit(19, AiId, "Owl", "Unit", Pos(300, 0, 0), 100, 20, 100000) >>

DuelNext == \E c \in Chance : Tick(MaxDuelTicks, c.offset, c.dir)

DuelSpec ==
  /\ StartAt({ [ units |-> DuelUnits, lastWinCheckMs |-> LATE_MS, tickCounter |-> n ] :
                 n \in {240, 241} }, {20})
  /\ [][DuelNext]_vars

-----------------------------------------------------------------------------
(* The separation resolver on its own: two Units of the local player and one of
   the AI player; a call moves one of them to where checkCollision puts it *)

ResolveUnits ==
  << [ createUnit(17, LocalId, "Bee", Pos(0, 0, 0)) EXCEPT !.unitState = "idle" ],
     [ createUnit(18, LocalId, "Bee", Pos(300, 0, 0)) EXCEPT !.unitState = "idle" ],
     createUnit(19, AiId, "Owl", Pos(800, 0, 0)) >>

\* newPosition of a call
ResolveTargets == { Pos(100, 0, 0), Pos(200, 0, 100), Pos(550, 0, 0), Pos(650, 0, 0) }

\* unit.position = checkCollision(newPosition, unit, draft.units, 2.5, ...)
Resolve(id, newPosition, rndDir) ==
  /\ ticksRun < MaxResolves
  /\ units' = [ units EXCEPT ![IndexOfId(units, id)] =
                  checkCollision(newPosition, UnitOf(units, id), units, selectedUnitIds,
                                 localPlayerId, unitOrders, clock, rndDir) ]
  /\ ticksRun' = ticksRun + 1
  /\ lastOp' = [op |-> "checkCollision", unitId |-> id, newPosition |-> newPosition]
  /\ UNCHANGED <<unitOrders, queenPatrols, selectedUnitIds, selectedAnimalPool, players,
                 localPlayerId, lastSpawnAtMsByQueenId, lastRegenAtMsByUnitId,
                 unitCountCache, spatialGrid, tickCounter, aiThinkingOffset, targetCache,
                 lastWinCheckMs, matchStarted, gameOver, winner, isPaused, bridgeState,
                 distanceCache, clock, frameMs, accumulator, nextId, commandsIssued>>

ResolveNext ==
  \E id \in {17, 18, 19}, newPosition \in ResolveTargets, c \in Chance :
    Resolve(id, newPosition, c.dir)

ResolveSpec ==
  /\ StartAt({ [ units |-> ResolveUnits, lastWinCheckMs |-> LATE_MS, tickCounter |-> 240 ] },
             {500})
  /\ [][ResolveNext]_vars

-----------------------------------------------------------------------------
(* The spatial grid on its own: three Units on either side of cell borders
   (cells are 50 units wide, with borders at x = 0 and x = 50); a query
   rebuilds the grid from the units and asks for the units around a position *)

GridPlaces ==
  { Pos(-100, 0, 0), Pos(100, 0, 0), Pos(4900, 0, 300), Pos(5100, 0, 0), Pos(12000, 0, 0) }

GridUnits(p1, p2, p3) ==
  << createUnit(17, LocalId, "Bee", p1), createUnit(18, LocalId, "Bee", p2),
     createUnit(19, AiId, "Owl", p3) >>

\* position and radius of a query
GridQueries ==
  [ position : { Pos(50, 0, 0), Pos(4950, 0, 0) }, radius : { 200, 5000, 7100 } ]

\* buildFromUnits(units) followed by getNearbyUnits(position, radius)
GridQuery(position, radius) ==
  /\ ticksRun < MaxQueries
  /\ spatialGrid' = buildFromUnits(units)
  /\ ticksRun' = ticksRun + 1
  /\ lastOp' = [ op |-> "getNearbyUnits", position |-> position, radius |-> radius,
                 found |-> getNearbyUnits(buildFromUnits(units), units, position, radius) ]
  /\ UNCHANGED <<units, unitOrders, queenPatrols, selectedUnitIds, selectedAnimalPool,
                 players, localPlayerId, lastSpawnAtMsByQueenId, lastRegenAtMsByUnitId,
                 unitCountCache, tickCounter, aiThinkingOffset, targetCache,
                 lastWinCheckMs, matchStarted, gameOver, winner, isPaused, bridgeState,
                 distanceCache, clock, frameMs, accumulator, nextId, commandsIssued>>

GridNext == \E q \in GridQueries : GridQuery(q.position, q.radius)

GridSpec ==
  /\ StartAt({ [ units |-> GridUnits(p1, p2, p3), lastWinCheckMs |-> LATE_MS,
                 tickCounter |-> 240 ] : p1 \in GridPlaces, p2 \in GridPlaces, p3 \in GridPlaces },
             {500})
  /\ [][GridNext]_vars

-----------------------------------------------------------------------------
(* Flight: the board of the last stage with a weak local Queen, and a Turtle
   Unit of the AI 49.9 units north of the local Unit, which it has hit before;
   the local Unit is ordered south, away from it, or north *)

FleeUnits ==
  << [ createQueen(2, LocalId, "Bee", Pos(0, 25, 0)) EXCEPT !.hp = 40, !.unitState = "idle" ],
     createKing(12, AiId, "Owl", Pos(300, 25, 0)),
     [ createUnit(13, AiId, "Turtle", Pos(600, 0, 4990)) EXCEPT
         !.lastAttackAtMs = LATE_MS - 60000 ],
     [ createUnit(19, LocalId, "Bee", Pos(600, 0, 0)) EXCEPT
         !.hp = 36, !.unitState = "idle", !.currentAttackers = << <<13>> >> ] >>

\* targets of the local Unit: 10 units south, 10 units north
FleeTargets == { Pos(600, 0, -1000), Pos(600, 0, 1000) }

FleeNext ==
  \/ \E c \in Chance : Tick(MaxFleeTicks, c.offset, c.dir)
  \/ \E target \in FleeTargets : moveCommand(<<19>>, target)

FleeSpec ==
  /\ StartAt({ [ units |-> FleeUnits, lastWinCheckMs |-> LATE_MS, tickCounter |-> 240 ] },
             {500, 2500})
  /\ [][FleeNext]_vars

-----------------------------------------------------------------------------
(* A match started again: startMatch on a store that a match has used *)

MaxRematchTicks == 3

\* the end-game board beside the right gate: the local Queen stands in its zone
RematchUnits(kingHp) ==
  << [ createQueen(2, LocalId, "Bee", Pos(600, 25, 0)) EXCEPT !.unitState = "idle" ],
     [ createKing(12, AiId, "Owl", Pos(900, 25, 0)) EXCEPT !.hp = kingHp ],
     [ createUnit(19, LocalId, "Bee", Pos(1200, 0, 0)) EXCEPT !.unitState = "idle" ] >>

RematchNext ==
  \/ \E c \in Chance : Tick(MaxRematchTicks, c.offset, c.dir)
  \/ moveCommand(<<19>>, Pos(1200, 0, 1000))
  \/ \E unitIds \in {<<2, 19>>, << >>} : selectUnits(unitIds)
  \/ chooseAnimalsForLocal(<<"Owl", "Fox", "Turtle", "Bee">>)
  \/ startMatch

RematchSpec ==
  /\ StartAt({ [ units |-> RematchUnits(kingHp), lastWinCheckMs |-> LATE_MS - 2500,
                 tickCounter |-> 240 ] : kingHp \in {15, 300} }, {2500})
  /\ [][RematchNext]_vars

-----------------------------------------------------------------------------
(* Drills: small boards late in a match on which one unit of the local player
   is given an order before the first tick, ticks 20 ms apart *)

MaxDrillTicks == 110

\* the boards: a local King with an AI Base 6 units to its right
DrillStores ==
  { [ units |-> << [ createKing(3, LocalId, "Bee", Pos(0, 25, 0)) EXCEPT
                       !.unitState = "idle" ],
                   createBase(10, AiId, "Owl", Pos(600, 25, 0)) >>,
      lastWinCheckMs |-> LATE_MS, tickCounter |-> 240 ] }

\* ticks, and before the first of them an order to the first unit of the board:
\* 5 units to the left, 1 unit to the left
DrillNext ==
  \/ \E c \in Chance : Tick(MaxDrillTicks, c.offset, c.dir)
  \/ /\ ticksRun = 0
     /\ \E target \in {Pos(units[1].position.x - 500, units[1].position.y, 0),
                        Pos(units[1].position.x - 100, units[1].position.y, 0)} :
          moveCommand(<<units[1].id>>, target)

DrillSpec == StartAt(DrillStores, {20}) /\ [][DrillNext]_vars

-----------------------------------------------------------------------------
(* A crowd: late in a match the local Queen, `ahead` damaged Units of the local
   player that stand in a row far from it, a damaged Unit of the local player 3
   units from the Queen, and a Base of the AI player out of reach *)

CrowdStores ==
  { [ units |-> << [ createQueen(1, LocalId, "Bee", Pos(0, 25, 0)) EXCEPT
                       !.unitState = "idle" ] >>
                \o [ k \in 1..ahead |->
                       [ createUnit(k + 1, LocalId, "Bee", Pos(2000 + 300 * k, 0, 0)) EXCEPT
                           !.hp = @ - 5, !.unitState = "idle" ] ]
                \o << [ createUnit(ahead + 2, LocalId, "Bee", Pos(300, 0, 0)) EXCEPT
                          !.hp = @ - 5, !.unitState = "idle" ],
                      createBase(ahead + 3, AiId, "Owl", Pos(0, 25, 20000)) >>,
      lastWinCheckMs |-> LATE_MS, tickCounter |-> n ]
    : ahead \in {29, 30}, n \in {240, 241, 242} }

CrowdSpec ==
  /\ StartAt(CrowdStores, {1000, 2500})
  /\ [][\E c \in Chance : Tick(MaxCrowdTicks, c.offset, c.dir)]_vars

-----------------------------------------------------------------------------
(* The fixed-timestep driver: useFrame adds the time since the last frame to its
   accumulator and runs one tick per whole timestep in it; the pause menu sets
   isPaused while it is mounted. Times of the accumulator are in thirds of a
   millisecond, in which the timestep 1000 / 60 ms is the integer 50 *)

FIXED_TIMESTEP == (3 * 1000) \div GAME_LOGIC_FPS

\* the cap of frameTime, ms
MAX_FRAME_TIME == 250

\* tick without its early return
tickRegardless(d, nowMs, rnd, rndDir) ==
  Conclude(Decide(Prepare([d EXCEPT !.combatPairs = << >>], nowMs, rndDir),
                  IdsOf(SelectSeq(d.units, IsMovable)), nowMs, rnd, rndDir),
           nowMs, rndDir)

\* tick(dtSec, nowMs) on the draft d of the store; its combatPairs are a local
\* of the call
tick(d, nowMs, rnd, rndDir) ==
  IF ~matchStarted \/ isPaused THEN d
  ELSE Conclude(Decide(Prepare([d EXCEPT !.combatPairs = << >>], nowMs, rndDir),
                       IdsOf(SelectSeq(d.units, IsMovable)), nowMs, rnd, rndDir),
                nowMs, rndDir)

RECURSIVE TickLoop(_, _, _, _)
\* the while loop of useFrame; run.dts are the dt arguments of the ticks it has
\* run, in thirds of a millisecond
TickLoop(run, nowMs, rnd, rndDir) ==
  IF run.accumulator >= FIXED_TIMESTEP
    THEN TickLoop([ draft |-> tick(run.draft, nowMs, rnd, rndDir),
                    accumulator |-> run.accumulator - FIXED_TIMESTEP,
                    dts |-> Append(run.dts, FIXED_TIMESTEP) ], nowMs, rnd, rndDir)
    ELSE run

\* the frame time without its cap
FrameTimeUncapped(elapsed) == elapsed

\* frameTime of a frame that comes elapsed ms after the last one
FrameTime(elapsed) == IF elapsed < MAX_FRAME_TIME THEN elapsed ELSE MAX_FRAME_TIME

\* the callback of useFrame, elapsed ms after the last frame
useFrame(elapsed, rnd, rndDir) ==
  /\ ticksRun < MaxDriverFrames
  /\ \E run \in { TickLoop([ draft |-> Draft,
                             accumulator |-> accumulator + 3 * FrameTime(elapsed),
                             dts |-> << >> ], clock + elapsed, rnd, rndDir) } :
       /\ units' = run.draft.units
       /\ unitOrders' = run.draft.unitOrders
       /\ queenPatrols' = run.draft.queenPatrols
       /\ lastSpawnAtMsByQueenId' = run.draft.lastSpawnAtMsByQueenId
       /\ lastRegenAtMsByUnitId' = run.draft.lastRegenAtMsByUnitId
       /\ unitCountCache' = run.draft.unitCountCache
       /\ spatialGrid' = run.draft.spatialGrid
       /\ tickCounter' = run.draft.tickCounter
       /\ aiThinkingOffset' = run.draft.aiThinkingOffset
       /\ targetCache' = run.draft.targetCache
       /\ lastWinCheckMs' = run.draft.lastWinCheckMs
       /\ gameOver' = run.draft.gameOver
       /\ winner' = run.draft.winner
       /\ bridgeState' = run.draft.bridgeState
       /\ distanceCache' = run.draft.distanceCache
       /\ nextId' = run.draft.nextId
       /\ accumulator' = run.accumulator
       /\ lastOp' = [ op |-> "useFrame", frameTime |-> FrameTime(elapsed),
                      dts |-> run.dts ]
  /\ clock' = clock + elapsed
  /\ ticksRun' = ticksRun + 1
  /\ UNCHANGED <<selectedUnitIds, selectedAnimalPool, players, localPlayerId, matchStarted,
                 isPaused, frameMs, commandsIssued>>

\* PauseMenu: the effect of its mounting (paused = TRUE) and its cleanup
PauseMenu(paused) ==
  /\ isPaused # paused
  /\ commandsIssued < MaxCommands
  /\ isPaused' = paused
  /\ commandsIssued' = commandsIssued + 1
  /\ lastOp' = [op |-> "PauseMenu", paused |-> paused]
  /\ UNCHANGED <<units, unitOrders, queenPatrols, selectedUnitIds, selectedAnimalPool,
                 players, localPlayerId, lastSpawnAtMsByQueenId, lastRegenAtMsByUnitId,
                 unitCountCache, spatialGrid, tickCounter, aiThinkingOffset, targetCache,
                 lastWinCheckMs, matchStarted, gameOver, winner, bridgeState,
                 distanceCache, clock, frameMs, accumulator, nextId, ticksRun>>

\* ms between two frames: less than a timestep, more than two, more than the cap
FrameGaps == { 5, 40, 300 }

DriverNext ==
  \/ \E elapsed \in FrameGaps, c \in Chance : useFrame(elapsed, c.offset, c.dir)
  \/ \E paused \in BOOLEAN : PauseMenu(paused)
  \/ moveCommand(<<2>>, Pos(100, 25, 0))
  \/ setPatrol(2, PatrolStart, PatrolEnd)
  \/ selectUnits(<<19>>)

\* the store before a match, or late in a match on the board of the last stage
DriverSpec ==
  /\ \/ Begin("skirmish", {20})
     \/ StartAt({ [ units |-> LateUnits(board), lastWinCheckMs |-> LATE_MS,
                    tickCounter |-> 240 ] :
                  board \in [ queenHp : {120}, kingHp : {300} ] }, {20})
  /\ [][DriverNext]_vars

-----------------------------------------------------------------------------
(* Properties *)

IsStronghold(u) == u.kind \in {"Base", "King", "Queen"}

Holds(us, playerId) == \E j \in DOMAIN us : us[j].ownerId = playerId /\ IsStronghold(us[j])

\* C1: after every completed tick every unit in the unit set has 0 < hp <= maxHp:
\* a unit whose hp reached 0 or less is gone when the tick ends, and
\* regeneration does not raise hp above maxHp
HpWithinBounds ==
  lastOp.op = "tick" =>
    \A j \in DOMAIN units : 0 < units[j].hp /\ units[j].hp <= units[j].maxHp

\* a tick has ended with fewer units than were created, one of them regenerated
HpAfterDeathAndRegen ==
  /\ lastOp.op = "tick"
  /\ Len(units) < nextId - 1
  /\ \E j \in DOMAIN units : units[j].id \in DOMAIN lastRegenAtMsByUnitId

\* C2: the step that sets gameOver leaves every player other than the winner
\* with no Base, no King and no Queen
WinNeverPremature ==
  [][ (~gameOver /\ gameOver') =>
        \A p \in DOMAIN players :
          players[p].id # winner' => ~Holds(units', players[p].id) ]_vars

\* the game is over, won by the AI, which still holds a King
WinRecorded == gameOver /\ winner = AiId /\ Holds(units, AiId)

\* the win check runs only when 5000 ms have passed since the last one
WinCheckThrottled ==
  lastWinCheckMs' # lastWinCheckMs => clock' - lastWinCheckMs >= 5000

\* when a tick ended with player b holding no Base, King or Queen and player a
\* holding one, the first tick 5000 ms or more after the last win check records
\* the win of a
SurvivorRecorded ==
  \A a, b \in DOMAIN players :
    ( /\ lastOp.op = "tick" /\ ~gameOver
      /\ ~Holds(units, players[b].id) /\ Holds(units, players[a].id)
      /\ clock' - lastWinCheckMs >= 5000 )
      => gameOver' /\ winner' = players[a].id

\* C3: win detection is bounded: the win of the player left holding a Base, King or
\* Queen is recorded by the first tick 5000 ms or more after the previous win
\* check, and the win check runs at most once per 5000 ms
WinDetectionBounded ==
  [][ lastOp'.op = "tick" => WinCheckThrottled /\ SurvivorRecorded ]_vars

\* C4: no player has more than 20 Unit entities of one species
ProductionCap ==
  \A p \in DOMAIN players, animal \in DOMAIN ANIMALS :
    Cardinality({ j \in DOMAIN units : /\ units[j].ownerId = players[p].id
                                       /\ units[j].animal = animal
                                       /\ units[j].kind = "Unit" }) <= 20

\* C5: no unit has both a move order and a patrol
OrdersExcludePatrols == DOMAIN unitOrders \cap DOMAIN queenPatrols = {}

\* the queenId of a setPatrol names a Queen of the local player
ValidPatrolQueen(queenId) ==
  \E j \in DOMAIN units : /\ units[j].id = queenId /\ units[j].ownerId = localPlayerId
                          /\ units[j].kind = "Queen"

\* C6: an accepted setPatrol removes the move order of the Queen and installs the
\* patrol, the end position being the endpoint approached
PatrolReplacesOrder ==
  [][ (lastOp'.op = "setPatrol" /\ ValidPatrolQueen(lastOp'.queenId)) =>
        /\ lastOp'.queenId \notin DOMAIN unitOrders'
        /\ lastOp'.queenId \in DOMAIN queenPatrols'
        /\ queenPatrols'[lastOp'.queenId] =
             [ startPosition |-> lastOp'.startPosition, endPosition |-> lastOp'.endPosition,
               currentTarget |-> "end" ] ]_vars

\* a setPatrol was accepted for a Queen that had a move order
PatrolOverOrder ==
  /\ lastOp.op = "setPatrol" /\ lastOp.hadOrder
  /\ lastOp.queenId \in DOMAIN queenPatrols

\* the ids of a moveCommand that name units of the local player
OwnUnits(unitIds) ==
  { id \in Range(unitIds) :
      \E j \in DOMAIN units : units[j].id = id /\ units[j].ownerId = localPlayerId }

\* a moveCommand orders the caller's own units among its ids and nothing else
MoveOrdersOwnUnitsOnly ==
  lastOp'.op = "moveCommand" =>
    /\ queenPatrols' = queenPatrols
    /\ DOMAIN unitOrders' = DOMAIN unitOrders \cup OwnUnits(lastOp'.unitIds)
    /\ \A id \in DOMAIN unitOrders' :
         unitOrders'[id] = IF id \in OwnUnits(lastOp'.unitIds) THEN lastOp'.target
                           ELSE unitOrders[id]
    /\ Len(units') = Len(units)
    /\ \A j \in DOMAIN units :
         units[j].id \notin OwnUnits(lastOp'.unitIds) => units'[j] = units[j]

\* a setPatrol for anything but a Queen of the caller changes nothing
InvalidPatrolIgnored ==
  (lastOp'.op = "setPatrol" /\ ~ValidPatrolQueen(lastOp'.queenId)) =>
    UNCHANGED <<units, unitOrders, queenPatrols>>

\* C7: invalid commands are no-ops, and a mixed moveCommand orders only the
\* existing units of the caller
InvalidCommandsIgnored == [][ MoveOrdersOwnUnitsOnly /\ InvalidPatrolIgnored ]_vars

\* a moveCommand for a local Queen and an AI Queen has ordered the local one alone
MixedMoveOrdered ==
  /\ lastOp.op = "moveCommand" /\ lastOp.unitIds = <<5, 11>>
  /\ 5 \in DOMAIN unitOrders /\ 11 \notin DOMAIN unitOrders

\* C8: every Base is where startMatch put it: on a base position of its owner
BasesStayPut ==
  \A j \in DOMAIN units :
    units[j].kind = "Base" =>
      \E p \in DOMAIN players :
        /\ players[p].id = units[j].ownerId
        /\ units[j].position \in Range(players[p].basePositions)

\* C9: no Base has a unitState, a move order, a priorityAttacker or a list of
\* current attackers
BasesStayInert ==
  \A j \in DOMAIN units :
    units[j].kind = "Base" =>
      /\ units[j].unitState = "undefined"
      /\ units[j].id \notin DOMAIN unitOrders
      /\ units[j].priorityAttacker = Undefined
      /\ ~HasAttackers(units[j])

\* unit u is in no fight
AtPeace(u) ==
  /\ u.lastCombatTargetId = Undefined /\ u.priorityAttacker = Undefined
  /\ ~HasAttackers(u) /\ u.unitState # "pursuing_enemy"

\* the patrol endpoint a Queen approaches
PatrolTarget(patrol) ==
  IF patrol.currentTarget = "end" THEN patrol.endPosition ELSE patrol.startPosition

\* C10: on each tick a Queen with a patrol, no move order and no fight comes nearer
\* to the patrol endpoint it approaches, or, within 1 unit of it, turns to the
\* other endpoint
PatrolQueenAdvances ==
  [][ lastOp'.op = "tick" =>
        \A id \in DOMAIN queenPatrols :
          ( /\ id \notin DOMAIN unitOrders
            /\ HasUnit(units, id) /\ HasUnit(units', id)
            /\ AtPeace(UnitOf(units, id)) /\ AtPeace(UnitOf(units', id)) )
            => \/ distanceSquared3D(UnitOf(units', id).position, PatrolTarget(queenPatrols[id]))
                    < distanceSquared3D(UnitOf(units, id).position,
                                        PatrolTarget(queenPatrols[id]))
               \/ /\ distanceSquared3D(UnitOf(units, id).position,
                                       PatrolTarget(queenPatrols[id])) <= 10000
                  /\ queenPatrols'[id].currentTarget # queenPatrols[id].currentTarget ]_vars

\* the unit was within 0.5 units of its order when the tick began
OrderReached(id) ==
  distanceSquared3D(UnitOf(units, id).position, unitOrders[id]) <= 2500

\* the unit has been blocked for 2000 ms or more at the time of the tick
OrderTimedOut(id) ==
  /\ Truthy(UnitOf(units, id).firstBlockedAtMs)
  /\ clock' - UnitOf(units, id).firstBlockedAtMs >= 2000

\* C11: a unit of the local player that has a move order keeps the order and the
\* state moving_to_order through every step, whatever attacks it or stands near
\* it, unless the step is a tick that finds it arrived (within 0.5 units) or
\* blocked for 2 seconds, or a later command on that unit
OrderSurvivesCombat ==
  [][ \A id \in DOMAIN unitOrders :
        ( /\ HasUnit(units, id) /\ HasUnit(units', id)
          /\ UnitOf(units, id).ownerId = localPlayerId )
        => \/ /\ id \in DOMAIN unitOrders'
              /\ UnitOf(units', id).unitState = "moving_to_order"
           \/ lastOp'.op = "tick" /\ OrderReached(id)
           \/ lastOp'.op = "tick" /\ OrderTimedOut(id)
           \/ lastOp'.op = "setPatrol" /\ lastOp'.queenId = id ]_vars

\* the tick finds the unit arrived: the distance distance3D returns for the
\* unit and its order, from its memo if it holds their key, is 0.5 or less
OrderFoundReached(id) ==
  distance3D(distanceCache, UnitOf(units, id).position, unitOrders[id]).dsq <= 2500

\* the order and the state moving_to_order last through every step but a tick
\* that finds the unit arrived or blocked for 2 seconds, and a later command
OrderLeftByCombat ==
  [][ \A id \in DOMAIN unitOrders :
        ( /\ HasUnit(units, id) /\ HasUnit(units', id)
          /\ UnitOf(units, id).ownerId = localPlayerId )
        => \/ /\ id \in DOMAIN unitOrders'
              /\ UnitOf(units', id).unitState = "moving_to_order"
           \/ lastOp'.op = "tick" /\ OrderFoundReached(id)
           \/ lastOp'.op = "tick" /\ OrderTimedOut(id)
           \/ lastOp'.op = "setPatrol" /\ lastOp'.queenId = id ]_vars

\* a tick has left a wounded unit of the local player with attackers and its order
OrderKeptUnderAttack ==
  /\ lastOp.op = "tick"
  /\ \E j \in DOMAIN units :
       /\ units[j].ownerId = localPlayerId /\ units[j].id \in DOMAIN unitOrders
       /\ HasAttackers(units[j]) /\ units[j].hp < units[j].maxHp
       /\ units[j].unitState = "moving_to_order"

\* the local King stands in the trigger zone of the right gate
KingAtRightGate == isPlayerInZone(units, localPlayerId, RIGHT_TRIGGER_ZONE)

RightGate == bridgeState.rightBridge

LeftGate == bridgeState.leftBridge

\* the gate has gone from `before` to `after` by starting the animation `state`
GateStarted(before, after, state, triggered, nowMs) ==
  after = [before EXCEPT !.currentState = state, !.animationStartMs = nowMs,
                         !.frameStartMs = nowMs, !.triggeredByPlayer = triggered]

\* the gate has gone from `before` to `after` by one frame step, ending in
\* state `rest` if the frame reached is `last`
GateStepped(before, after, frame, last, rest, nowMs) ==
  after = [before EXCEPT !.currentFrame = frame, !.frameStartMs = nowMs,
                         !.currentState = IF frame = last THEN rest ELSE @]

\* what one tick at time nowMs does to a gate whose zone holds a King or not
GateCycleStep(before, after, inZone, nowMs) ==
  CASE before.currentState = "up" ->
         /\ before.currentFrame = "Fully_Up" /\ ~before.triggeredByPlayer
         /\ IF inZone THEN GateStarted(before, after, "lowering", TRUE, nowMs)
                      ELSE after = before
    [] before.currentState = "lowering" ->
         IF nowMs - before.frameStartMs < FRAME_DURATION THEN after = before
         ELSE \/ /\ before.currentFrame = "Fully_Up"
                 /\ GateStepped(before, after, "Almost_Up", "Fully_Down", "down", nowMs)
              \/ /\ before.currentFrame = "Almost_Up"
                 /\ GateStepped(before, after, "Almost_Down", "Fully_Down", "down", nowMs)
              \/ /\ before.currentFrame = "Almost_Down"
                 /\ GateStepped(before, after, "Fully_Down", "Fully_Down", "down", nowMs)
    [] before.currentState = "down" ->
         /\ before.currentFrame = "Fully_Down"
         /\ IF inZone THEN after = before
                      ELSE GateStarted(before, after, "raising", FALSE, nowMs)
    [] before.currentState = "raising" ->
         IF nowMs - before.frameStartMs < FRAME_DURATION THEN after = before
         ELSE \/ /\ before.currentFrame = "Fully_Down"
                 /\ GateStepped(before, after, "Almost_Down", "Fully_Up", "up", nowMs)
              \/ /\ before.currentFrame = "Almost_Down"
                 /\ GateStepped(before, after, "Almost_Up", "Fully_Up", "up", nowMs)
              \/ /\ before.currentFrame = "Almost_Up"
                 /\ GateStepped(before, after, "Fully_Up", "Fully_Up", "up", nowMs)

\* C12: the right gate, up and Fully_Up at the start, begins lowering on the
\* tick that finds a King of the local player within 10 units of the right zone
\* centre, steps Fully_Up -> Almost_Up -> Almost_Down -> Fully_Down one frame
\* per 1000 ms and is down less than 4000 ms of tick time after it began; it
\* stays down while the King is there, begins raising on the tick that finds
\* no King there and steps back Almost_Down -> Almost_Up -> Fully_Up to up.
GateCycle ==
  [][ IF lastOp'.op = "tick"
        THEN /\ GateCycleStep(RightGate, RightGate', KingAtRightGate', clock')
             /\ RightGate'.currentState = "lowering"
                  => clock' - RightGate'.animationStartMs < 4000
        ELSE RightGate' = RightGate ]_vars

\* the right gate is up again after a whole cycle, the King outside the zone
GateCycleDone ==
  /\ lastOp.op = "tick" /\ ~KingAtRightGate
  /\ RightGate.currentState = "up" /\ RightGate.currentFrame = "Fully_Up"
  /\ RightGate.animationStartMs >= LATE_MS + 4000

\* a King or Queen of the local player stands in the trigger zone of the left gate
KingAtLeftGate == isPlayerInZone(units, localPlayerId, LEFT_TRIGGER_ZONE)

\* the gate update applied to the store changes nothing but bridgeState
GatesTouchOnlyGates ==
  \E d \in {Draft} : [updateBridgeAnimations(d, clock) EXCEPT !.bridgeState = d.bridgeState] = d

\* C13 as stated: a tick with a King or Queen only in the right trigger zone
\* leaves every field of the left gate unchanged, and symmetrically, and the
\* gate update changes no unit, order or combat state.
GateUntouchedFromOtherZone ==
  [][ lastOp'.op = "tick" =>
        /\ (KingAtRightGate' /\ ~KingAtLeftGate') => LeftGate' = LeftGate
        /\ (KingAtLeftGate' /\ ~KingAtRightGate') => RightGate' = RightGate
        /\ GatesTouchOnlyGates' ]_vars

\* C13: a tick with a King or Queen only in the right trigger zone leaves
\* every field of the left gate unchanged if that gate is at rest in up, and
\* in every tick the left gate changes as its own cycle prescribes for its own
\* zone and the tick time, whoever stands in the right zone (and
\* symmetrically); the gate update changes no unit, order or combat state.
GateIndependence ==
  [][ lastOp'.op = "tick" =>
        /\ GateCycleStep(LeftGate, LeftGate', KingAtLeftGate', clock')
        /\ GateCycleStep(RightGate, RightGate', KingAtRightGate', clock')
        /\ (KingAtRightGate' /\ ~KingAtLeftGate' /\ LeftGate.currentState = "up")
             => LeftGate' = LeftGate
        /\ (KingAtLeftGate' /\ ~KingAtRightGate' /\ RightGate.currentState = "up")
             => RightGate' = RightGate
        /\ GatesTouchOnlyGates' ]_vars

\* the left gate is in mid-animation after a tick that found a King or Queen
\* only in the right zone
LeftGateMovingAlone ==
  /\ lastOp.op = "tick" /\ KingAtRightGate /\ ~KingAtLeftGate
  /\ LeftGate.currentState \in {"lowering", "raising"}
  /\ LeftGate.frameStartMs = clock

\* the id of the other duellist
Opponent(id) == IF id = 18 THEN 19 ELSE 18

\* the duellist `before` has come out of a tick at nowMs as `after`: a hit it
\* made went to its opponent (forgotten again if the hit killed it), and a hit
\* it took cost it 20 hit points
DuelStep(before, after, killed, nowMs) ==
  /\ after.lastAttackAtMs # before.lastAttackAtMs
       => /\ after.lastAttackAtMs = nowMs
          /\ after.lastCombatTargetId = IF killed THEN Undefined ELSE Opponent(before.id)
  /\ after.hp \in {before.hp, before.hp - 20}
  /\ after.hp \in {100, 80, 60, 40, 20}

\* C14: in the duel each unit takes the other as its target, every hit costs
\* the target 20 hit points, successive hits of one attacker are 1500 ms
\* apart, a unit has 40 hit points after three hits, and a unit leaves the
\* unit set in the tick of the fifth hit on it, not before.
DuelOnCadence ==
  [][ \A j \in DOMAIN units :
        IF HasUnit(units', units[j].id)
          THEN /\ DuelStep(units[j], UnitOf(units', units[j].id),
                           ~HasUnit(units', Opponent(units[j].id)), clock')
               /\ ( /\ units[j].lastAttackAtMs # 0
                    /\ UnitOf(units', units[j].id).lastAttackAtMs # units[j].lastAttackAtMs )
                    => clock' - units[j].lastAttackAtMs = 1500
          ELSE units[j].hp = 20 ]_vars

\* the duel but for the cadence: targets, damage per hit, hit points after
\* each hit, removal with the fifth hit, and at least 1500 ms between the
\* hits of one attacker
DuelButCadence ==
  [][ \A j \in DOMAIN units :
        IF HasUnit(units', units[j].id)
          THEN /\ DuelStep(units[j], UnitOf(units', units[j].id),
                           ~HasUnit(units', Opponent(units[j].id)), clock')
               /\ ( /\ units[j].lastAttackAtMs # 0
                    /\ UnitOf(units', units[j].id).lastAttackAtMs # units[j].lastAttackAtMs )
                    => clock' - units[j].lastAttackAtMs \in 1500 .. 1500 + 2 * frameMs
          ELSE units[j].hp = 20 ]_vars

\* squared distance on the ground between two positions
GroundSq(a, b) == (a.x - b.x) * (a.x - b.x) + (a.z - b.z) * (a.z - b.z)

\* C15: the position checkCollision returns for a unit is at least 2.5 units
\* from every other unit that is not a Base, friend or enemy, except enemies
\* within the 2 units of the melee exemption.
SeparationKept ==
  lastOp.op = "checkCollision" =>
    \A j \in DOMAIN units :
      (units[j].id # lastOp.unitId /\ units[j].kind # "Base")
      => \/ GroundSq(UnitOf(units, lastOp.unitId).position, units[j].position)
              >= MINIMUM_DISTANCE * MINIMUM_DISTANCE
         \/ /\ units[j].ownerId # UnitOf(units, lastOp.unitId).ownerId
            /\ GroundSq(UnitOf(units, lastOp.unitId).position, units[j].position)
                 <= MELEE_EXEMPT_SQ

\* the ids of the units within the radius of the position, by brute force
WithinRadius(us, position, radius) ==
  { us[j].id : j \in { k \in DOMAIN us :
      (us[k].position.x - position.x) * (us[k].position.x - position.x)
      + (us[k].position.y - position.y) * (us[k].position.y - position.y)
      + (us[k].position.z - position.z) * (us[k].position.z - position.z)
      <= radius * radius } }

\* C16: right after buildFromUnits(units), getNearbyUnits(position, radius)
\* returns exactly the units whose distance to the position is at most the
\* radius, each of them once.
GridFindsExactly ==
  lastOp.op = "getNearbyUnits" =>
    /\ Range(lastOp.found) = WithinRadius(units, lastOp.position, lastOp.radius)
    /\ Len(lastOp.found) = Cardinality(Range(lastOp.found))

\* a query has found a unit in another cell than its own and has left out a
\* unit of a cell it visited
GridFoundAcrossCells ==
  /\ lastOp.op = "getNearbyUnits"
  /\ \E j \in DOMAIN units :
       /\ Includes(lastOp.found, units[j].id)
       /\ getGridCoords(units[j].position) # getGridCoords(lastOp.position)
  /\ \E j \in DOMAIN units :
       /\ ~Includes(lastOp.found, units[j].id)
       /\ getGridCoords(units[j].position) = getGridCoords(lastOp.position)

\* C17: after every completed tick every id in a unit's currentAttackers is the
\* id of a unit that is in the unit set with hp > 0 and is at most 50 units
\* from that unit.
AttackersValid ==
  lastOp.op = "tick" =>
    \A j \in DOMAIN units : \A n \in DOMAIN Attackers(units[j]) :
      /\ HasUnit(units, Attackers(units[j])[n])
      /\ UnitOf(units, Attackers(units[j])[n]).hp > 0
      /\ distanceSquared3D(units[j].position,
                            UnitOf(units, Attackers(units[j])[n]).position)
           <= ATTACKER_RANGE_SQ

\* a tick has ended with the Unit more than 50 units from the Turtle that had
\* hit it and without it among its attackers, and with the Queen dead and gone
\* from the attackers of the King
AttackersDropped ==
  /\ lastOp.op = "tick"
  /\ HasUnit(units, 19) /\ HasUnit(units, 13) /\ HasUnit(units, 12) /\ ~HasUnit(units, 2)
  /\ distanceSquared3D(UnitOf(units, 19).position, UnitOf(units, 13).position)
       > ATTACKER_RANGE_SQ
  /\ ~Includes(Attackers(UnitOf(units, 19)), 13)
  /\ HasAttackers(UnitOf(units, 12))

\* C18: after every completed tick no unit's priorityAttacker or
\* lastCombatTargetId names a unit that is no longer in the unit set, also when
\* the reference was stamped in the tick in which the unit named died.
NoReferenceToRemoved ==
  lastOp.op = "tick" =>
    \A j \in DOMAIN units :
      /\ units[j].priorityAttacker # Undefined => HasUnit(units, units[j].priorityAttacker)
      /\ units[j].lastCombatTargetId # Undefined
           => HasUnit(units, units[j].lastCombatTargetId)

\* a tick has ended in which the local Unit hit the King and the King died:
\* the King is gone and the Unit, stamped with the hit, names no target
KillerForgetsTarget ==
  /\ lastOp.op = "tick"
  /\ ~HasUnit(units, 12) /\ HasUnit(units, 19)
  /\ UnitOf(units, 19).lastAttackAtMs = clock
  /\ UnitOf(units, 19).lastCombatTargetId = Undefined
  /\ UnitOf(units, 19).priorityAttacker = Undefined

\* the number of units of a kind that a player has
KindCount(us, playerId, kind) ==
  Cardinality({ j \in DOMAIN us : us[j].ownerId = playerId /\ us[j].kind = kind })

\* the ids of the units in the array
IdSet(us) == { us[j].id : j \in DOMAIN us }

\* the draft of the tick that comes next, after combat application and before
\* the removal of the dead
FoughtDraft(rnd, rndDir) ==
  Fight(Decide(Prepare(Draft, clock + frameMs, rndDir), IdsOf(SelectSeq(units, IsMovable)),
               clock + frameMs, rnd, rndDir),
        clock + frameMs, rndDir)

\* the units that leave in the step are those that the combat of a tick has
\* left with hp <= 0
RemovedAreFallen ==
  \/ IdSet(units) \subseteq IdSet(units')
  \/ /\ lastOp'.op = "tick"
     /\ \E c \in Chance : \E d \in {FoughtDraft(c.offset, c.dir)} :
          /\ IdSet(units') = { d.units[j].id : j \in { k \in DOMAIN d.units : d.units[k].hp > 0 } }
          /\ \A id \in IdSet(units) \ IdSet(units') :
               HasUnit(d.units, id) /\ UnitOf(d.units, id).hp <= 0

\* the units that arrive in the step are Units made by the spawn step of a
\* tick, with the owner and the species of a Queen that spawned in it
AddedAreSpawned ==
  \A id \in IdSet(units') \ IdSet(units) :
    /\ lastOp'.op = "tick"
    /\ UnitOf(units', id).kind = "Unit"
    /\ \E j \in DOMAIN units :
         /\ units[j].kind = "Queen"
         /\ units[j].ownerId = UnitOf(units', id).ownerId
         /\ units[j].animal = UnitOf(units', id).animal
         /\ Get(lastSpawnAtMsByQueenId', units[j].id, 0) = clock'

\* C19: once the match has started, no tick and no command adds a Base, a
\* Queen or a King (each player's number of each never grows, and no unit
\* changes its kind, owner or species); the only units added are Units made
\* by the spawn step with the owner and species of the spawning Queen; and a
\* unit leaves the unit set only in a tick that has left it with hp <= 0.
Lifecycle ==
  [][ (matchStarted /\ lastOp'.op # "startMatch") =>
        /\ \A p \in DOMAIN players : \A kind \in {"Base", "Queen", "King"} :
             KindCount(units', players[p].id, kind) <= KindCount(units, players[p].id, kind)
        /\ \A id \in IdSet(units) \cap IdSet(units') :
             /\ UnitOf(units', id).kind = UnitOf(units, id).kind
             /\ UnitOf(units', id).ownerId = UnitOf(units, id).ownerId
             /\ UnitOf(units', id).animal = UnitOf(units, id).animal
        /\ AddedAreSpawned
        /\ RemovedAreFallen ]_vars

\* a Unit has been spawned and a unit has died
SpawnedAndFallen ==
  /\ lastOp.op = "tick"
  /\ \E j \in DOMAIN units : units[j].id >= 20 /\ units[j].kind = "Unit"
  /\ Len(units) < nextId - 16

\* the units of owner `ownerId` and kind `kind` that stand at `position`
StandingAt(us, ownerId, kind, position) ==
  { j \in DOMAIN us : us[j].ownerId = ownerId /\ us[j].kind = kind
                                              /\ us[j].position = position }

\* exactly one unit of that owner and kind stands there, of that species at full HP
OneAtFullHp(us, ownerId, kind, animal, position) ==
  /\ Cardinality(StandingAt(us, ownerId, kind, position)) = 1
  /\ \A j \in StandingAt(us, ownerId, kind, position) :
       us[j].animal = animal /\ us[j].hp = us[j].maxHp /\ us[j].hp > 0

\* the species player p fields in slot i: the chosen pool for the local
\* player, the player's own list for the AI
SpeciesOf(p, i) == IF p.isAI THEN p.animals[i] ELSE selectedAnimalPool[i]

\* the unit set is the opening one: per player and slot a Base on the base
\* position, a Queen 3 further in x and a King 3 further in z, and nothing else
OpeningUnits ==
  /\ Len(units) = 9 * Len(players)
  /\ \A q \in DOMAIN players : \A i \in 1..3 :
       LET p == players[q]
           at == p.basePositions[i]
       IN /\ OneAtFullHp(units, p.id, "Base", SpeciesOf(p, i), at)
          /\ OneAtFullHp(units, p.id, "Queen", SpeciesOf(p, i), Pos(at.x + 300, at.y, at.z))
          /\ OneAtFullHp(units, p.id, "King", SpeciesOf(p, i), Pos(at.x, at.y, at.z + 300))

\* C20: startMatch resets the simulation: afterwards the unit set is, for each
\* player and each slot, exactly one Base at the base position, one Queen 3
\* further in x and one King 3 further in z, all of the player's species of
\* that slot at full HP; there are no orders, no selection and no spawn
\* timestamps, the game is not over, there is no winner, and both gates are
\* up at Fully_Up and untriggered
StartMatchResets ==
  lastOp.op = "startMatch" =>
    /\ OpeningUnits
    /\ DOMAIN unitOrders = {} /\ selectedUnitIds = << >>
    /\ DOMAIN lastSpawnAtMsByQueenId = {}
    /\ ~gameOver /\ winner = Undefined
    /\ \A gate \in {RightGate, LeftGate} :
         gate.currentState = "up" /\ gate.currentFrame = "Fully_Up"
                                 /\ ~gate.triggeredByPlayer

\* startMatch has run on a store whose match was over and won, with an order
\* standing, units selected, a Queen's spawn stamped, the right gate moving
\* and another pool chosen than the player's own list
RestartedAfterWin ==
  /\ lastOp.op = "startMatch"
  /\ lastOp.before.gameOver /\ lastOp.before.winner # Undefined
  /\ lastOp.before.ordered # {} /\ lastOp.before.selectedUnitIds # << >>
  /\ lastOp.before.queens # {} /\ lastOp.before.rightBridge # "up"
  /\ selectedAnimalPool # players[1].animals

\* the draft of the tick that comes next, when the loop over movableUnits has
\* ended and no queued attack has been applied
DecidedDraft(c) ==
  Decide(Prepare(Draft, clock + frameMs, c.dir), IdsOf(SelectSeq(units, IsMovable)),
         clock + frameMs, c.offset, c.dir)

\* the attacker of the pair, where its step of the loop has left it, is within
\* 4 units of the target, where the target stood before the loop or after it
QueuedInRange(d, pair) ==
  LET from == UnitOf(d.units, pair.attacker).position
  IN \/ distanceSquared3D(from, UnitOf(d.units, pair.target).position) <= 160000
     \/ /\ HasUnit(units, pair.target)
        /\ distanceSquared3D(from, UnitOf(units, pair.target).position) <= 160000

\* the attackers of the pairs, in order
AttackersOf(pairs) == [ k \in DOMAIN pairs |-> pairs[k].attacker ]

\* C21: a unit queues an attack in a tick only with its target within 4 units
\* and 1500 ms or more after its last attack; it queues at most one attack per
\* tick, and its lastAttackAtMs is the time of its last attack, so two attacks
\* of one unit are 1500 ms or more apart
AttackCooldown ==
  [][ IF lastOp'.op = "tick"
        THEN /\ \A k \in DOMAIN lastOp'.combatPairs :
                  /\ HasUnit(units, lastOp'.combatPairs[k].attacker)
                  /\ clock' - UnitOf(units, lastOp'.combatPairs[k].attacker).lastAttackAtMs
                       >= 1500
                  /\ \A k2 \in DOMAIN lastOp'.combatPairs :
                       lastOp'.combatPairs[k2].attacker = lastOp'.combatPairs[k].attacker
                         => k2 = k
             /\ \E c \in Chance : \E d \in {DecidedDraft(c)} :
                  /\ d.combatPairs = lastOp'.combatPairs
                  /\ \A k \in DOMAIN d.combatPairs : QueuedInRange(d, d.combatPairs[k])
             /\ \A j \in DOMAIN units :
                  HasUnit(units', units[j].id) =>
                    UnitOf(units', units[j].id).lastAttackAtMs =
                      IF units[j].id \in Range(AttackersOf(lastOp'.combatPairs))
                        THEN clock' ELSE units[j].lastAttackAtMs
        ELSE \A j \in DOMAIN units :
               HasUnit(units', units[j].id) =>
                 UnitOf(units', units[j].id).lastAttackAtMs = units[j].lastAttackAtMs ]_vars

\* a unit that attacked before attacks again in this tick, and a tick before
\* this one queued no attack
AttackedAgain ==
  /\ lastOp.op = "tick"
  /\ \E k \in DOMAIN lastOp.combatPairs :
       \E j \in DOMAIN units :
         /\ units[j].id = lastOp.combatPairs[k].attacker
         /\ units[j].lastAttackAtMs = clock
         /\ clock >= LATE_MS + 1500 + frameMs

\* the damage of the pairs k.. that have `id` as target
RECURSIVE DamageTo(_, _, _)
DamageTo(pairs, id, k) ==
  IF k > Len(pairs) THEN 0
  ELSE (IF pairs[k].target = id THEN pairs[k].damage ELSE 0) + DamageTo(pairs, id, k + 1)

\* C22: when the loop over the movable units of a tick has ended no unit has
\* fewer hit points than before the tick; then every queued attack is applied,
\* also that of an attacker that the batch itself brings to 0 or less: a unit
\* ends the tick with its hit points less the damage of all pairs on it, or
\* is gone if that is 0 or less
BatchedCombat ==
  [][ lastOp'.op = "tick" =>
        \E c \in Chance : \E d \in {DecidedDraft(c)} :
          /\ d.combatPairs = lastOp'.combatPairs
          /\ \A j \in DOMAIN units : UnitOf(d.units, units[j].id).hp >= units[j].hp
          /\ \A j \in DOMAIN d.units :
               IF d.units[j].hp - DamageTo(d.combatPairs, d.units[j].id, 1) > 0
                 THEN /\ HasUnit(units', d.units[j].id)
                      /\ UnitOf(units', d.units[j].id).hp =
                           d.units[j].hp - DamageTo(d.combatPairs, d.units[j].id, 1)
                 ELSE ~HasUnit(units', d.units[j].id) ]_vars

\* two units have killed each other in one tick
KilledEachOther ==
  /\ lastOp.op = "tick"
  /\ \E k, k2 \in DOMAIN lastOp.combatPairs :
       /\ lastOp.combatPairs[k].attacker = lastOp.combatPairs[k2].target
       /\ lastOp.combatPairs[k].target = lastOp.combatPairs[k2].attacker
       /\ ~HasUnit(units, lastOp.combatPairs[k].attacker)
       /\ ~HasUnit(units, lastOp.combatPairs[k].target)

\* C23: under continued ticking every move order of a unit of the local player
\* is cleared, by arrival or by block abandonment, and the unit is idle again,
\* whatever enemies are within 8 units of it; here: the orders given before
\* the first tick, at most 5 units away, are cleared when MaxDrillTicks ticks
\* have run
OrderCompletes ==
  ticksRun = MaxDrillTicks =>
    \A j \in DOMAIN units :
      units[j].ownerId = localPlayerId => units[j].id \notin DOMAIN unitOrders

\* the unit is blocked in the tick that comes next: its movement is paused or
\* its collision counter is 3 or more
Blocked(u) ==
  \/ isMovementPaused(u, clock + frameMs)
  \/ Truthy(u.collisionAttempts) /\ u.collisionAttempts >= 3

\* the tick that comes next abandons the order of the unit: it is blocked and
\* has been so since firstBlockedAtMs, 2000 ms or more back
Abandons(u) ==
  Blocked(u) /\ Truthy(u.firstBlockedAtMs) /\ clock + frameMs - u.firstBlockedAtMs >= 2000

\* what a tick does to the block window of a unit of the local player that has
\* an order, `counts` being the values the collision counter may have after an
\* abandonment
BlockWindow(counts) ==
      lastOp'.op = "tick" =>
        \A j \in DOMAIN units :
          ( /\ units[j].ownerId = localPlayerId /\ units[j].id \in DOMAIN unitOrders
            /\ HasUnit(units', units[j].id) )
          => LET after == UnitOf(units', units[j].id)
             IN IF Abandons(units[j])
                  THEN /\ units[j].id \notin DOMAIN unitOrders'
                       /\ after.unitState = "idle"
                       /\ ~Truthy(after.firstBlockedAtMs)
                       /\ ~Truthy(after.movementPausedUntilMs)
                       /\ ~Truthy(after.collisionAttempts) \/ after.collisionAttempts \in counts
                ELSE IF Blocked(units[j])
                  THEN after.firstBlockedAtMs =
                         IF Truthy(units[j].firstBlockedAtMs) THEN units[j].firstBlockedAtMs
                         ELSE clock'
                ELSE ~Truthy(after.firstBlockedAtMs)

\* C24: a unit of the local player with an order that a tick finds blocked,
\* with every tick since 2000 ms or more back having found it blocked, loses
\* the order, is idle, and has its collision counter, pause expiry and block
\* timestamp cleared when the tick ends; a tick that finds it not blocked
\* clears the block timestamp, and the first blocked tick sets it
BlockAbandonment == [][BlockWindow({0})]_vars

\* as C24, but the collision counter counts the collision of the step that
\* the abandoning tick still takes toward the abandoned position
BlockAbandonmentCounting == [][BlockWindow({0, 1})]_vars

\* what a tick that sets the pause expiry of a unit leaves: the collision
\* counter at `most` or less and the expiry 100 ms (a unit of the local player
\* with an order) or 200 ms (any other unit) after `now`
PauseSet(now, most) ==
      lastOp'.op = "tick" =>
        \A j \in DOMAIN units :
          HasUnit(units', units[j].id) =>
            LET before == units[j]
                after == UnitOf(units', units[j].id)
                pauseDuration == IF before.ownerId = localPlayerId
                                    /\ before.id \in DOMAIN unitOrders THEN 100 ELSE 200
            IN ( Truthy(after.movementPausedUntilMs)
                 /\ after.movementPausedUntilMs # before.movementPausedUntilMs )
               => /\ after.collisionAttempts <= most
                  /\ after.movementPausedUntilMs = now + pauseDuration

\* C25: a unit whose collision counter reaches its threshold has the counter
\* reset to 0 and its movement paused until 100 ms (local unit with an order)
\* or 200 ms (otherwise) after the nowMs of the tick, the clock against which
\* the order branches compare the pause
CollisionPause == [][PauseSet(clock', 0)]_vars

\* as C25, but the pause expiry is taken from the wall clock, and the counter
\* counts the collision of a later step of the same tick
CollisionPauseByDate == [][PauseSet(DateNow(clock'), 1)]_vars

\* the ids of the units, still in the array, that fired at unit u in the tick
\* that has just run
FiredAt(u) ==
  { lastOp.combatPairs[k].attacker :
      k \in { n \in DOMAIN lastOp.combatPairs :
                /\ lastOp.combatPairs[n].target = u.id
                /\ HasUnit(units, lastOp.combatPairs[n].attacker) } }

\* a tick has just run in which an enemy fired at u, a unit of the local player
\* other than a Base that has no order, and both are still in the array
AttackedWithoutOrder(u) ==
  /\ lastOp.op = "tick"
  /\ u.ownerId = localPlayerId /\ IsMovable(u) /\ u.id \notin DOMAIN unitOrders
  /\ FiredAt(u) # {}

\* unit u, attacked in the tick that has just run, has its attackers registered,
\* and the tick that comes next leaves it pursuing a priority attacker taken
\* from them, which is the target of the attack it queues
Responds(u) ==
      /\ \A a \in FiredAt(u) : Includes(Attackers(u), a)
      /\ (lastOp'.op = "tick" /\ HasUnit(units', u.id))
           => LET after == UnitOf(units', u.id)
              IN /\ after.unitState = "pursuing_enemy"
                 /\ Includes(Attackers(u), after.priorityAttacker)
                 /\ \A k \in DOMAIN lastOp'.combatPairs :
                      lastOp'.combatPairs[k].attacker = u.id
                        => lastOp'.combatPairs[k].target = after.priorityAttacker

TurnDraft(c, j) ==
  Decide(Prepare(Draft, clock + frameMs, c.dir),
         IdsOf(SelectSeq(SubSeq(units, 1, j - 1), IsMovable)), clock + frameMs, c.offset, c.dir)

\* in draft d, q is a registered attacker of the unit `id`, and no living
\* registered attacker is nearer to the unit
NearestRegistered(d, id, q) ==
  LET me == UnitOf(d.units, id)
      Dsq(a) == distanceSquared3D(me.position, UnitOf(d.units, a).position)
  IN /\ Includes(Attackers(me), q) /\ HasUnit(d.units, q)
     /\ \A n \in DOMAIN Attackers(me) :
          (HasUnit(d.units, Attackers(me)[n]) /\ UnitOf(d.units, Attackers(me)[n]).hp > 0)
            => Dsq(q) <= Dsq(Attackers(me)[n])

\* what a tick does to the priority attacker of the unit at place j, a unit of
\* the local player other than a Base that has no order and outlives the tick
Retains(j) ==
      ( /\ lastOp'.op = "tick"
        /\ units[j].ownerId = localPlayerId /\ IsMovable(units[j])
        /\ units[j].id \notin DOMAIN unitOrders
        /\ HasUnit(units', units[j].id) )
      => LET after == UnitOf(units', units[j].id)
             P == units[j].priorityAttacker
             Q == after.priorityAttacker
         IN /\ (P # Undefined /\ Includes(Attackers(units[j]), P)
                                /\ Includes(Attackers(after), P)) => Q = P
            /\ (Q # Undefined /\ Q # P)
                 => /\ ~Includes(Attackers(units[j]), P)
                    /\ \E c \in Chance : NearestRegistered(TurnDraft(c, j), units[j].id, Q)

\* C27: over a tick before and after which the priority attacker P of a unit of
\* the local player without order is in its currentAttackers, the priority
\* attacker stays P, whoever else is nearer; a tick sets another priority
\* attacker only when P was not registered, and sets the nearest living
\* registered attacker
PriorityRetention == [][ \A j \in DOMAIN units : Retains(j) ]_vars

\* a unit of the local player without order keeps a priority attacker while
\* another of its registered attackers is nearer
KeptTheFarther ==
  /\ lastOp.op = "tick"
  /\ \E j \in DOMAIN units :
       /\ units[j].ownerId = localPlayerId /\ units[j].id \notin DOMAIN unitOrders
       /\ units[j].priorityAttacker # Undefined
       /\ Includes(Attackers(units[j]), units[j].priorityAttacker)
       /\ \E n \in DOMAIN Attackers(units[j]) :
            distanceSquared3D(units[j].position,
                              UnitOf(units, Attackers(units[j])[n]).position)
              < distanceSquared3D(units[j].position,
                                  UnitOf(units, units[j].priorityAttacker).position)

\* unit u of the array us has no registered attacker and no unit of another
\* owner within the 10 units of its detection radius
Unthreatened(us, u) ==
  /\ Attackers(u) = << >>
  /\ \A j \in DOMAIN us :
       us[j].ownerId # u.ownerId
         => distanceSquared3D(u.position, us[j].position) > DETECT_RADIUS * DETECT_RADIUS

\* a tick that finds the unit at place j, a unit of the local player other than
\* a Base without order and in one of `states`, unthreatened and leaves it so,
\* leaves it idle without priority attacker
Calms(j, states) ==
      ( /\ lastOp'.op = "tick"
        /\ units[j].ownerId = localPlayerId /\ IsMovable(units[j])
        /\ units[j].id \notin DOMAIN unitOrders /\ units[j].unitState \in states
        /\ Unthreatened(units, units[j])
        /\ HasUnit(units', units[j].id)
        /\ Unthreatened(units', UnitOf(units', units[j].id)) )
      => /\ UnitOf(units', units[j].id).priorityAttacker = Undefined
         /\ UnitOf(units', units[j].id).unitState = "idle"

\* the values of unitState
UnitStates == {"undefined", "idle", "moving_to_order", "pursuing_enemy"}

\* C28: a unit of the local player without order that has no registered
\* attacker left and no enemy within 10 units has its priority attacker
\* cleared and is idle after the next tick (and so within the next two)
ReturnToIdle == [][ \A j \in DOMAIN units : Calms(j, UnitStates) ]_vars

\* as C28, for the units that are not in moving_to_order
ReturnToIdleUnlessMoving ==
  [][ \A j \in DOMAIN units : Calms(j, UnitStates \ {"moving_to_order"}) ]_vars

\* a Queen of the owner of u stands within the regen radius of u
QueenNear(u) ==
  \E q \in DOMAIN units :
    /\ units[q].kind = "Queen" /\ units[q].ownerId = u.ownerId
    /\ distanceSquared3D(u.position, units[q].position) <= 800 * 800

\* a step that leaves the unit at place j with more hit points is a tick that
\* heals it: one point more, tick counter a multiple of 3, a Queen of its owner
\* near, the heal recorded at the nowMs of the tick and the last one recorded
\* 3000 ms or more before
HealedByRule(j) ==
      ( /\ lastOp'.op # "startMatch"
        /\ HasUnit(units', units[j].id)
        /\ UnitOf(units', units[j].id).hp > units[j].hp )
      => /\ lastOp'.op = "tick"
         /\ UnitOf(units', units[j].id).hp = units[j].hp + 1
         /\ units[j].hp + 1 <= units[j].maxHp
         /\ tickCounter' % 3 = 0
         /\ QueenNear(units[j])
         /\ Get(lastRegenAtMsByUnitId', units[j].id, 0) = clock'
         /\ clock' - Get(lastRegenAtMsByUnitId, units[j].id, 0) >= 3000

\* C29: the hit points of a unit increase only by the regeneration of a tick:
\* by 1, not above maxHp, on a tick whose counter is a multiple of 3, with a
\* Queen of the same owner within 8 units, and 3000 ms of nowMs or more after
\* the last heal of the unit, the time of which lastRegenAtMsByUnitId keeps
RegenerationRate ==
  [][ /\ \A j \in DOMAIN units : HealedByRule(j)
      /\ lastOp'.op = "tick" =>
           \A id \in DOMAIN lastRegenAtMsByUnitId :
             /\ id \in DOMAIN lastRegenAtMsByUnitId'
             /\ lastRegenAtMsByUnitId'[id] >= lastRegenAtMsByUnitId[id] ]_vars

\* a unit has been healed a second time: the Queen that was left with 120 hit
\* points and has taken one hit of 48 has 74 after the heal of the last tick
HealedTwice ==
  /\ lastOp.op = "tick"
  /\ \E j \in DOMAIN units :
       /\ units[j].kind = "Queen" /\ units[j].hp = 74
       /\ Get(lastRegenAtMsByUnitId, units[j].id, 0) = clock
       /\ clock >= LATE_MS + 2 * 3000

\* the unit can be healed in a tick at `now`: alive, below max HP, last healed
\* 3000 ms or more before, a Queen of its owner within the regen radius
Eligible(u, now) ==
  /\ u.hp > 0 /\ u.hp < u.maxHp
  /\ now - Get(lastRegenAtMsByUnitId, u.id, 0) >= 3000
  /\ QueenNear(u)

\* on a tick whose counter is a multiple of 3 the units healed are the eligible
\* ones that fewer than 30 units counted by Counts precede in the array
HealsFirst(Counts(_)) ==
      (lastOp'.op = "tick" /\ tickCounter' % 3 = 0)
      => \A j \in DOMAIN units :
           Get(lastRegenAtMsByUnitId', units[j].id, 0) = clock'
             <=> /\ Eligible(units[j], clock')
                 /\ Cardinality({ k \in 1..(j - 1) : Counts(units[k]) }) < 30

\* unit u is eligible in the tick that comes next
EligibleNext(u) == Eligible(u, clock + frameMs)

\* unit u is below max HP
Damaged(u) == u.hp < u.maxHp

\* C30: on a tick whose counter is a multiple of 3 the units healed are the
\* first 30 eligible units in array order: an eligible unit is healed whenever
\* fewer than 30 eligible units precede it, however many damaged units that
\* are not eligible precede it
RegenBudget == [][HealsFirst(EligibleNext)]_vars

\* as C30, but the 30 are counted among the units below max HP, eligible or not
RegenBudgetOfDamaged == [][HealsFirst(Damaged)]_vars

\* the places of the Queens that make a spawn attempt in the tick that comes
\* next: those with the last-spawn timestamp 10000 ms or more back
Attempting ==
  { j \in DOMAIN units :
      /\ units[j].kind = "Queen"
      /\ clock + frameMs - Get(lastSpawnAtMsByQueenId, units[j].id, 0) >= 10000 }

\* what a step does to the spawn timestamps and to the number of units created
SpawnStep ==
      IF lastOp'.op = "tick"
        THEN /\ \A j \in Attempting :
                  Get(lastSpawnAtMsByQueenId', units[j].id, 0) = clock'
             /\ \A id \in DOMAIN lastSpawnAtMsByQueenId' :
                  (\A j \in Attempting : units[j].id # id)
                    => /\ id \in DOMAIN lastSpawnAtMsByQueenId
                       /\ lastSpawnAtMsByQueenId'[id] = lastSpawnAtMsByQueenId[id]
             /\ nextId' - nextId =
                  Cardinality({ j \in Attempting :
                                  Get(unitCountCache', <<units[j].ownerId, units[j].animal>>, 0)
                                    < 20 })
      ELSE lastOp'.op # "startMatch"
             => /\ lastSpawnAtMsByQueenId' = lastSpawnAtMsByQueenId
                /\ nextId' = nextId

\* C31: a Queen makes a spawn attempt only in a tick whose nowMs is 10000 ms or
\* more after its last-spawn timestamp; the attempt sets the timestamp to nowMs
\* and creates one unit, or none when the count of its species that the tick
\* has cached is 20 or more; no other step changes a timestamp or creates a
\* unit
SpawnTiming == [][SpawnStep]_vars

\* a Queen has made an attempt that the cap blocked
CapBlockedAttempt ==
  /\ lastOp.op = "tick"
  /\ \E j \in DOMAIN units :
       /\ units[j].kind = "Queen"
       /\ Get(lastSpawnAtMsByQueenId, units[j].id, 0) = clock
       /\ Get(unitCountCache, <<units[j].ownerId, units[j].animal>>, 0) >= 20

\* the place of a frame in the lowering order
FrameIndex(frame) ==
  CASE frame = "Fully_Up" -> 0
    [] frame = "Almost_Up" -> 1
    [] frame = "Almost_Down" -> 2
    [] frame = "Fully_Down" -> 3

\* the steps of the cycle up -> lowering -> down -> raising -> up
GateArrows ==
  { <<"up", "lowering">>, <<"lowering", "down">>, <<"down", "raising">>, <<"raising", "up">> }

\* what a tick at nowMs may do to a gate: keep the state or follow one arrow of
\* the cycle; in lowering and raising move the frame by one place at most, in
\* the direction of the state, and only 1000 ms or more after the frame began;
\* elsewhere leave the frame alone
GateStepsOnce(before, after, nowMs) ==
  /\ after.currentState = before.currentState
       \/ <<before.currentState, after.currentState>> \in GateArrows
  /\ CASE before.currentState = "lowering" ->
             /\ FrameIndex(after.currentFrame) - FrameIndex(before.currentFrame) \in {0, 1}
             /\ after.currentFrame # before.currentFrame
                  => nowMs - before.frameStartMs >= 1000
             /\ after.currentState = "down" <=> after.currentFrame = "Fully_Down"
       [] before.currentState = "raising" ->
             /\ FrameIndex(before.currentFrame) - FrameIndex(after.currentFrame) \in {0, 1}
             /\ after.currentFrame # before.currentFrame
                  => nowMs - before.frameStartMs >= 1000
             /\ after.currentState = "up" <=> after.currentFrame = "Fully_Up"
       [] OTHER -> after.currentFrame = before.currentFrame

\* C32: a gate changes state only along the cycle up -> lowering -> down ->
\* raising -> up, one arrow per tick at most; in lowering or raising it
\* advances one frame per tick at most and only 1000 ms or more after the
\* frame began, and it leaves lowering only for down and raising only for up,
\* whether or not a King or Queen stands in its zone; no command changes a gate
GateStepping ==
  [][ IF lastOp'.op = "tick"
        THEN /\ GateStepsOnce(RightGate, RightGate', clock')
             /\ GateStepsOnce(LeftGate, LeftGate', clock')
        ELSE lastOp'.op # "startMatch" => bridgeState' = bridgeState ]_vars

\* a gate has come down although its zone was left while it was lowering
CameDownUntriggered ==
  /\ lastOp.op = "tick"
  /\ \/ RightGate.currentState = "down" /\ RightGate.frameStartMs = clock /\ ~KingAtRightGate
     \/ LeftGate.currentState = "down" /\ LeftGate.frameStartMs = clock /\ ~KingAtLeftGate

\* C33: no id appears twice in the currentAttackers of a unit, so their number
\* never exceeds the number of units of other owners in the array
AttackersBounded ==
  \A j \in DOMAIN units :
    /\ \A m, n \in DOMAIN Attackers(units[j]) :
         Attackers(units[j])[m] = Attackers(units[j])[n] => m = n
    /\ Len(Attackers(units[j]))
         <= Cardinality({ k \in DOMAIN units : units[k].ownerId # units[j].ownerId })

\* as C33, for what the end of a tick does ensure: every registered attacker is
\* a unit of the array
AttackersAmongUnits ==
  lastOp.op = "tick" =>
    \A j \in DOMAIN units : \A n \in DOMAIN Attackers(units[j]) :
      HasUnit(units, Attackers(units[j])[n])

\* C34: a frame of the driver adds at most 250 ms to the accumulator, runs at most
\* floor((250 ms + one timestep) / timestep) ticks, each with dt of one timestep
\* (as many ticks of the store as it counts, when the match runs), and leaves the
\* accumulator in [0, one timestep)
CatchUpCap ==
  [][ lastOp'.op = "useFrame" =>
        /\ lastOp'.frameTime <= 250
        /\ accumulator' + Len(lastOp'.dts) * FIXED_TIMESTEP - accumulator
             = 3 * lastOp'.frameTime
        /\ Len(lastOp'.dts) <= (3 * 250 + FIXED_TIMESTEP) \div FIXED_TIMESTEP
        /\ \A n \in DOMAIN lastOp'.dts : 60 * lastOp'.dts[n] = 3 * 1000
        /\ (matchStarted /\ ~isPaused) => tickCounter' = tickCounter + Len(lastOp'.dts)
        /\ accumulator' >= 0 /\ accumulator' < FIXED_TIMESTEP ]_vars

\* a frame of a running match that came more than 250 ms after the last one has
\* run 15 ticks and left a part of a timestep in the accumulator
CaughtUp ==
  /\ lastOp.op = "useFrame" /\ lastOp.frameTime = 250 /\ Len(lastOp.dts) = 15
  /\ matchStarted /\ ~isPaused /\ tickCounter >= 255
  /\ accumulator > 0

\* C35: a Queen, King or Unit of the local player in state moving_to_order has an
\* entry in unitOrders
OrderedWhileMoving ==
  \A j \in DOMAIN units :
    ( /\ units[j].ownerId = localPlayerId
      /\ units[j].kind \in {"Queen", "King", "Unit"}
      /\ units[j].unitState = "moving_to_order" )
    => units[j].id \in DOMAIN unitOrders

\* as C35, for every step but a setPatrol: no other step leaves a unit of the
\* local player in moving_to_order without an order unless it was so before
OrderedUnlessPatrolled ==
  [][ lastOp'.op # "setPatrol" =>
        \A j \in DOMAIN units' :
          ( /\ units'[j].ownerId = localPlayerId
            /\ units'[j].kind \in {"Queen", "King", "Unit"}
            /\ units'[j].unitState = "moving_to_order"
            /\ units'[j].id \notin DOMAIN unitOrders' )
          => \E k \in DOMAIN units :
               /\ units[k].id = units'[j].id
               /\ units[k].unitState = "moving_to_order"
               /\ units[k].id \notin DOMAIN unitOrders ]_vars

\* C36: when a tick sets gameOver, the recorded winner holds a Base, King or Queen
WinnerLegitimate ==
  [][ (lastOp'.op = "tick" /\ ~gameOver /\ gameOver') => Holds(units', winner') ]_vars

\* as C36, for what the check does ensure: when a tick sets gameOver, no player
\* but the recorded winner holds a Base, King or Queen
WinnerUnopposed ==
  [][ (lastOp'.op = "tick" /\ ~gameOver /\ gameOver') =>
        \A j \in DOMAIN players :
          players[j].id # winner' => ~Holds(units', players[j].id) ]_vars

\* C37: once gameOver is true, no step but a startMatch changes the winner or
\* sets gameOver back to false
WinnerStable ==
  [][ (gameOver /\ lastOp'.op # "startMatch") => (gameOver' /\ winner' = winner) ]_vars

\* the match was won by the AI player, and a later tick has removed the last
\* King of the AI player
FoughtOnAfterTheEnd ==
  /\ gameOver /\ winner = AiId /\ lastOp.op = "tick"
  /\ ~Holds(units, AiId)
  /\ \E j \in DOMAIN units : units[j].ownerId = LocalId

\* C38: a frame whose ticks run while the match is not started or is paused
\* leaves the store as it was; a moveCommand, setPatrol or selectUnits issued
\* during a pause takes effect
InactiveTickIdle ==
  [][ /\ (lastOp'.op = "useFrame" /\ (~matchStarted \/ isPaused)) =>
           UNCHANGED <<units, unitOrders, queenPatrols, selectedUnitIds, selectedAnimalPool,
                       players, localPlayerId, lastSpawnAtMsByQueenId,
                       lastRegenAtMsByUnitId, unitCountCache, spatialGrid, tickCounter,
                       aiThinkingOffset, targetCache, lastWinCheckMs, matchStarted,
                       gameOver, winner, isPaused, bridgeState, distanceCache, nextId>>
      /\ (isPaused /\ lastOp'.op = "moveCommand") =>
           \A n \in DOMAIN lastOp'.unitIds :
             ( /\ HasUnit(units, lastOp'.unitIds[n])
               /\ UnitOf(units, lastOp'.unitIds[n]).ownerId = localPlayerId )
             => /\ Get(unitOrders', lastOp'.unitIds[n], Undefined) = lastOp'.target
                /\ UnitOf(units', lastOp'.unitIds[n]).unitState = "moving_to_order"
      /\ (isPaused /\ lastOp'.op = "setPatrol" /\ PatrolAccepted(lastOp'.queenId)) =>
           /\ lastOp'.queenId \in DOMAIN queenPatrols'
           /\ queenPatrols'[lastOp'.queenId].startPosition = lastOp'.startPosition
           /\ queenPatrols'[lastOp'.queenId].endPosition = lastOp'.endPosition
      /\ (isPaused /\ lastOp'.op = "selectUnits") => selectedUnitIds' = lastOp'.unitIds
    ]_vars

\* during a pause a frame has run ticks that left the tick counter where it was,
\* and a moveCommand has then given the Queen its order
OrderedDuringPause ==
  /\ isPaused /\ lastOp.op = "moveCommand"
  /\ clock >= LATE_MS + 40 /\ tickCounter = 240
  /\ 2 \in DOMAIN unitOrders

\* C39: a tick leaves the thinking offset of every unit that has one as it was
OffsetStable ==
  [][ lastOp'.op = "tick" =>
        \A id \in DOMAIN aiThinkingOffset :
          /\ id \in DOMAIN aiThinkingOffset'
          /\ aiThinkingOffset'[id] = aiThinkingOffset[id] ]_vars

\* as C39, for the offset 1 alone
OffsetOneStable ==
  [][ lastOp'.op = "tick" =>
        \A id \in DOMAIN aiThinkingOffset :
          aiThinkingOffset[id] = 1 =>
            /\ id \in DOMAIN aiThinkingOffset'
            /\ aiThinkingOffset'[id] = 1 ]_vars

\* state, frame and flag of a gate agree
GateAgrees(gate) ==
  /\ gate.currentState = "up" =>
       gate.currentFrame = "Fully_Up" /\ ~gate.triggeredByPlayer
  /\ gate.currentState = "down" =>
       gate.currentFrame = "Fully_Down" /\ gate.triggeredByPlayer
  /\ gate.triggeredByPlayer <=> gate.currentState \in {"lowering", "down"}

\* C40: a gate that is up shows Fully_Up with the triggered flag false, a gate
\* that is down shows Fully_Down with the flag true, and the flag is true
\* exactly when the gate is lowering or down
GateConsistency == GateAgrees(RightGate) /\ GateAgrees(LeftGate)

\* a gate has come up again after a full cycle while the other is down
UpAgainBesideDown ==
  \E pair \in { <<RightGate, LeftGate>>, <<LeftGate, RightGate>> } :
    /\ pair[1].currentState = "up" /\ pair[1].frameStartMs > LATE_MS
    /\ pair[2].currentState = "down"

=============================================================================
